---- MODULE Spec2Model ----
(***************************************************************************)
(* A model of the ETL core of etl_sample_health: the record transformer   *)
(* (etl/transformation.py over the pydantic models of etl/schemas.py),    *)
(* the orchestrator pipeline_transform, and the batch loader              *)
(* (etl/loading.py) over a transactional store.                            *)
(*                                                                         *)
(* Three state machines share the module's variables:                      *)
(*   SpecRecord    one raw record through transform_patient or            *)
(*                 transform_device_reading;                               *)
(*   Spec          one call of pipeline_transform, record by record;       *)
(*   SpecLoad      one call of load_data on a connection to a store.       *)
(***************************************************************************)
EXTENDS Integers, Sequences, FiniteSets, TLC

VARIABLES
    \* SpecRecord: one record and what the transformer returned for it
    r_kind, r_raw, r_idx, r_out, r_pc,
    \* Spec: the locals of pipeline_transform
    raw_patient_data, raw_device_data, processed_patients, processed_readings,
    all_error_records, last_timestamp_dict, i, pc, ts_log,
    \* SpecLoad: the arguments and locals of load_data, and the store
    conn, patients, readings, loaded_patients_count, loaded_readings_count,
    db_loading_errors, taken, lpc, store, txn, store_before, trace,
    \* SpecLoadTwice: what a caller of load_data keeps of its first call
    first_summary,
    \* SpecRerun: what a caller of pipeline_transform keeps of its first run
    first_run,
    \* SpecMain: the position of main_async, the functions running in the
    \* executor, the exception that ended the run, and the names the module
    \* etl.loading provides
    stage, running, exception, loading_names,
    \* SpecLoadErrors: the argument and locals of load_error_data, and the
    \* sequence behind error_records.error_id
    errors, loaded_errors_count, db_error_loading_errors, etaken, epc, error_id_seq,
    \* SpecSchema: the position of initialize_database_schema, the objects of
    \* the schema (committed, and created by the open transaction), what
    \* execute_ddl returned, and what a caller keeps between calls
    spc, schema, schema_txn, ddl_taken, ddl_result, schema_calls, schema_before

rvars == <<r_kind, r_raw, r_idx, r_out, r_pc>>
pvars == <<raw_patient_data, raw_device_data, processed_patients, processed_readings,
           all_error_records, last_timestamp_dict, i, pc, ts_log>>
lvars == <<conn, patients, readings, loaded_patients_count, loaded_readings_count,
           db_loading_errors, taken, lpc, store, txn, store_before, trace>>
hvars == <<first_summary, first_run>>
mvars == <<stage, running, exception, loading_names>>
evars == <<errors, loaded_errors_count, db_error_loading_errors, etaken, epc, error_id_seq>>
svars == <<spc, schema, schema_txn, ddl_taken, ddl_result, schema_calls, schema_before>>
ovars == <<mvars, evars, svars>>
vars == <<rvars, pvars, lvars, hvars, ovars>>

(***************************************************************************)
(* Bounds of the model.                                                    *)
(***************************************************************************)
MaxReadings == 3
MaxLoadPatients == 3
MaxLoadReadings == 2

(***************************************************************************)
(* Python values.  Every value is a tuple that starts with its type, so    *)
(* values of different types can be told apart and compared:               *)
(*   <<"none">>                 None                                       *)
(*   <<"int", n>>               the int n                                  *)
(*   <<"float", h>>             the float h/100                            *)
(*   <<"list">>                 some list (neither number, str nor None)   *)
(*   <<"str", "chars", cs>>     the string of the characters cs            *)
(*   <<"str", "iso", h, z>>     the string "2023-01-01T<hh>:00:00<z>"      *)
(*   <<"str", "date", o, y, m, d, p>>  a date string, see StrptimeYmd      *)
(*   <<"str", "bp", s, d>>      "Systolic: <s>, Diastolic: <d>"            *)
(*   <<"str", "repr", rec>>     str(rec) of a dict                         *)
(***************************************************************************)
None == <<"none">>
PyInt(n) == <<"int", n>>
PyFloat(h) == <<"float", h>>
PyList == <<"list">>
PyStr(cs) == <<"str", "chars", cs>>
IsoStr(h, z) == <<"str", "iso", h, z>>

IsNone(v) == v[1] = "none"
IsInt(v) == v[1] = "int"
IsFloat(v) == v[1] = "float"
IsStr(v) == v[1] = "str"
IsNumber(v) == IsInt(v) \/ IsFloat(v)

\* The numeric value of an int or float, in hundredths.
Hundredths(v) == IF IsInt(v) THEN 100 * v[2] ELSE v[2]

\* Python's ==: numbers compare by value across int and float.
PyEq(a, b) == IF IsNumber(a) /\ IsNumber(b) THEN Hundredths(a) = Hundredths(b) ELSE a = b

\* dict.get(key, default) on a raw record (a function on the keys it holds).
Get(rec, key, default) == IF key \in DOMAIN rec THEN rec[key] ELSE default

\* A CSV row longer than its header gets the key None (csv.DictReader's
\* restkey): the one key of a raw record that is not a string.
NonStrKey == "<None>"

Optional(x) == <<x>>
Nothing == <<>>

Range(s) == {s[k] : k \in 1..Len(s)}
Min(S) == CHOOSE x \in S : \A y \in S : x <= y

(***************************************************************************)
(* str -> number, as int() and float() do it, for strings over digits,     *)
(* '-', '.' and letters with at most two digits after the point.           *)
(***************************************************************************)
Digits == <<"0", "1", "2", "3", "4", "5", "6", "7", "8", "9">>
IsDigit(c) == \E d \in 1..10 : Digits[d] = c
DigitVal(c) == (CHOOSE d \in 1..10 : Digits[d] = c) - 1

RECURSIVE ParseNat(_)
ParseNat(cs) == IF cs = <<>> THEN 0
                ELSE 10 * ParseNat(SubSeq(cs, 1, Len(cs) - 1)) + DigitVal(cs[Len(cs)])

Unsigned(cs) == IF cs # <<>> /\ cs[1] = "-" THEN Tail(cs) ELSE cs
Sign(cs) == IF cs # <<>> /\ cs[1] = "-" THEN -1 ELSE 1
AllDigits(cs) == \A k \in 1..Len(cs) : IsDigit(cs[k])
NonEmptyDigits(cs) == cs # <<>> /\ AllDigits(cs)

\* int(s) succeeds, and its value
IntParses(cs) == NonEmptyDigits(Unsigned(cs))
IntOf(cs) == Sign(cs) * ParseNat(Unsigned(cs))

DotAt(cs) == CHOOSE k \in 1..Len(cs) : cs[k] = "."
IntPart(u) == SubSeq(u, 1, DotAt(u) - 1)
FracPart(u) == SubSeq(u, DotAt(u) + 1, Len(u))
FloatShape(ip, fp) == AllDigits(ip) /\ AllDigits(fp) /\ Len(ip) + Len(fp) > 0
UnsignedFloatParses(u) == "." \in Range(u) /\ FloatShape(IntPart(u), FracPart(u))
Scaled(fp) == IF Len(fp) = 1 THEN 10 * ParseNat(fp) ELSE ParseNat(fp)
UnsignedFloatOf(u) == 100 * ParseNat(IntPart(u)) + Scaled(FracPart(u))

\* float(s) succeeds, and its value in hundredths, for a string that holds a '.'
FloatParses(cs) == UnsignedFloatParses(Unsigned(cs))
FloatOf(cs) == Sign(cs) * UnsignedFloatOf(Unsigned(cs))

\* '.' in s
HasDot(v) == v[2] = "chars" /\ "." \in Range(v[3])

(***************************************************************************)
(* Messages are sequences of tokens; `needle in msg.lower()` is a search   *)
(* for a run of tokens in the lower-cased message.                         *)
(***************************************************************************)
Capitalised == <<"Field", "Input", "Value", "Glucose", "Weight", "Invalid", "Expected",
                 "ISO", "Diastolic", "BP", "Systolic", "YYYY-MM-DD", "MM/DD/YYYY",
                 "(e.g., YYYY-MM-DDTHH:MM:SSZ)">>
LowerCased == <<"field", "input", "value", "glucose", "weight", "invalid", "expected",
                "iso", "diastolic", "bp", "systolic", "yyyy-mm-dd", "mm/dd/yyyy",
                "(e.g., yyyy-mm-ddthh:mm:ssz)">>
LowerTok(t) == IF \E k \in 1..Len(Capitalised) : Capitalised[k] = t
               THEN LowerCased[CHOOSE k \in 1..Len(Capitalised) : Capitalised[k] = t]
               ELSE t
Lower(msg) == [k \in 1..Len(msg) |-> LowerTok(msg[k])]
Contains(needle, hay) ==
    \E k \in 0..(Len(hay) - Len(needle)) : SubSeq(hay, k + 1, k + Len(needle)) = needle

(***************************************************************************)
(* pydantic's validation of one field: the value, or the error's type and  *)
(* message.                                                                *)
(***************************************************************************)
Ok(v) == [ok |-> TRUE, value |-> v, type |-> "", msg |-> <<>>]
Err(t, m) == [ok |-> FALSE, value |-> None, type |-> t, msg |-> m]

MsgMissing == <<"Field", "required">>
MsgStringType == <<"Input", "should", "be", "a", "valid", "string">>
MsgIntType == <<"Input", "should", "be", "a", "valid", "integer">>
MsgIntParsing == MsgIntType \o <<",", "unable", "to", "parse", "string", "as", "an", "integer">>
MsgIntFromFloat == MsgIntType \o <<",", "got", "a", "number", "with", "a", "fractional", "part">>
MsgFloatType == <<"Input", "should", "be", "a", "valid", "number">>
MsgFloatParsing == MsgFloatType \o <<",", "unable", "to", "parse", "string", "as", "a", "number">>
\* a ValueError raised by a field_validator
ValueError(m) == Err("value_error", <<"Value", "error", ",">> \o m)

\* int, in pydantic's lax mode
IntFromStr(v) == IF v[2] = "chars" /\ IntParses(v[3]) THEN Ok(PyInt(IntOf(v[3])))
                 ELSE Err("int_parsing", MsgIntParsing)
IntFromFloat(v) == IF v[2] % 100 = 0 THEN Ok(PyInt(v[2] \div 100))
                   ELSE Err("int_from_float", MsgIntFromFloat)
PydInt(v) == CASE IsInt(v) -> Ok(v)
               [] IsFloat(v) -> IntFromFloat(v)
               [] IsStr(v) -> IntFromStr(v)
               [] OTHER -> Err("int_type", MsgIntType)

\* float
FloatFromStr(v) ==
    IF v[2] # "chars" THEN Err("float_parsing", MsgFloatParsing)
    ELSE IF "." \in Range(v[3])
         THEN (IF FloatParses(v[3]) THEN Ok(PyFloat(FloatOf(v[3])))
               ELSE Err("float_parsing", MsgFloatParsing))
    ELSE IF IntParses(v[3]) THEN Ok(PyFloat(100 * IntOf(v[3])))
    ELSE Err("float_parsing", MsgFloatParsing)
PydFloat(v) == CASE IsInt(v) -> Ok(PyFloat(100 * v[2]))
                 [] IsFloat(v) -> Ok(v)
                 [] IsStr(v) -> FloatFromStr(v)
                 [] OTHER -> Err("float_type", MsgFloatType)

\* str
PydStr(v) == IF IsStr(v) THEN Ok(v) ELSE Err("string_type", MsgStringType)

PydType(kind, v) == CASE kind = "int" -> PydInt(v)
                      [] kind = "float" -> PydFloat(v)
                      [] kind = "str" -> PydStr(v)
                      [] OTHER -> Ok(v)

\* One field of a model: `f: kind` (required) or `f: Optional[kind] = None`.
PydField(rec, f, kind, optional) ==
    IF f \notin DOMAIN rec THEN (IF optional THEN Ok(None) ELSE Err("missing", MsgMissing))
    ELSE IF optional /\ IsNone(rec[f]) THEN Ok(None)
    ELSE PydType(kind, rec[f])

\* Model(**rec), from the outcomes of its fields: the model, or the first error
\* of the ValidationError (fields are validated in the order of their
\* declaration; unknown keys are ignored).
IndexOf(fields, f) == CHOOSE k \in 1..Len(fields) : fields[k] = f
Valid(fields, res) ==
    [ok |-> TRUE, model |-> [f \in Range(fields) |-> res[IndexOf(fields, f)].value],
     loc |-> "", type |-> "", msg |-> <<>>]
Invalid(fields, res, first) ==
    [ok |-> FALSE, model |-> <<>>, loc |-> fields[first], type |-> res[first].type,
     msg |-> res[first].msg]
Errors(res) == {k \in DOMAIN res : ~res[k].ok}
Validation(fields, res, bad) ==
    IF bad = {} THEN Valid(fields, res) ELSE Invalid(fields, res, Min(bad))
FieldResults(fields, res) == Validation(fields, res, Errors(res))

(***************************************************************************)
(* schemas.DeviceReading                                                   *)
(***************************************************************************)
DeviceReadingFields ==
    <<"patient_id", "timestamp", "glucose", "systolic_bp", "diastolic_bp", "weight",
      "reading_id">>

DeviceReadingKind(f) ==
    CASE f \in {"patient_id", "systolic_bp", "diastolic_bp"} -> "int"
      [] f \in {"glucose", "weight"} -> "float"
      [] f = "timestamp" -> "str"
      [] OTHER -> "any"

MsgTimestamp == <<"Invalid", "timestamp", "format", ".", "Expected", "ISO", "format",
                  "(e.g., YYYY-MM-DDTHH:MM:SSZ)", ".">>
MsgGlucose == <<"Glucose", "value", "out", "of", "plausible", "range", "(0-1000)", ".">>
MsgBp(f) == <<f, "value", "out", "of", "plausible", "range", "(0-300)", ".">>
MsgWeight == <<"Weight", "value", "out", "of", "plausible", "range", "(0-1000 lbs)", ".">>

\* datetime.fromisoformat(value.replace('Z', '+00:00')) accepts the string
FromIsoFormatOk(v) == v[2] = "iso"

validate_timestamp(v) == IF FromIsoFormatOk(v) THEN Ok(v) ELSE ValueError(MsgTimestamp)

GlucoseLow == 0
GlucoseHigh == 1000
BpLow == 0
BpHigh == 300
WeightLow == 0
WeightHigh == 1000

validate_glucose(v) ==
    IF ~IsNone(v) /\ ~(100 * GlucoseLow < v[2] /\ v[2] < 100 * GlucoseHigh)
    THEN ValueError(MsgGlucose) ELSE Ok(v)

validate_bp(v, f) ==
    IF ~IsNone(v) /\ ~(BpLow < v[2] /\ v[2] < BpHigh) THEN ValueError(MsgBp(f)) ELSE Ok(v)

validate_weight(v) ==
    IF ~IsNone(v) /\ ~(100 * WeightLow < v[2] /\ v[2] < 100 * WeightHigh)
    THEN ValueError(MsgWeight) ELSE Ok(v)

DeviceReadingValidator(f, v) ==
    CASE f = "timestamp" -> validate_timestamp(v)
      [] f = "glucose" -> validate_glucose(v)
      [] f \in {"systolic_bp", "diastolic_bp"} -> validate_bp(v, f)
      [] f = "weight" -> validate_weight(v)
      [] OTHER -> Ok(v)

\* A field_validator runs on the value the type check produced; it does not
\* run on a default (an absent field).
DeviceReadingChecked(rec, f, typed) ==
    IF typed.ok /\ f \in DOMAIN rec THEN DeviceReadingValidator(f, typed.value) ELSE typed

DeviceReadingField(rec, f) ==
    DeviceReadingChecked(rec, f, PydField(rec, f, DeviceReadingKind(f), f # "timestamp"))

DeviceReading(rec) ==
    FieldResults(DeviceReadingFields,
                 [k \in 1..Len(DeviceReadingFields) |->
                     DeviceReadingField(rec, DeviceReadingFields[k])])

(***************************************************************************)
(* schemas.ErrorRecord                                                     *)
(***************************************************************************)
FieldName(f) == <<"str", "field", f>>

ErrorRecord(reference, field_name, error_type, case_description, original_value, source_table) ==
    [reference |-> reference, field_name |-> field_name, error_type |-> error_type,
     case_description |-> case_description, original_value |-> original_value,
     source_table |-> source_table]

\* BaseModel.__eq__: field by field, with Python's == on the values
ErrorEq(a, b) ==
    /\ PyEq(a.reference, b.reference)
    /\ a.field_name = b.field_name
    /\ a.error_type = b.error_type
    /\ a.case_description = b.case_description
    /\ PyEq(a.original_value, b.original_value)
    /\ a.source_table = b.source_table

\* str(e) of the TypeError of Model(**rec) for a key that is not a string
MsgKeywords == <<"keywords", "must", "be", "strings">>

(***************************************************************************)
(* transformation.transform_device_reading                                 *)
(***************************************************************************)
NumericFields == {"glucose", "systolic_bp", "diastolic_bp", "weight"}

\* a str in a numeric field becomes None, a float or an int; a str that does
\* not convert is left for pydantic
CoerceStr(v) ==
    IF v = PyStr(<<>>) THEN None
    ELSE IF HasDot(v) THEN (IF FloatParses(v[3]) THEN PyFloat(FloatOf(v[3])) ELSE v)
    ELSE IF v[2] = "chars" /\ IntParses(v[3]) THEN PyInt(IntOf(v[3]))
    ELSE v
CoerceField(v) == IF IsStr(v) THEN CoerceStr(v) ELSE v

\* the raw record after the coercion loop (the dict is changed in place)
CoerceRecord(rec) ==
    [f \in DOMAIN rec |-> IF f \in NumericFields THEN CoerceField(rec[f]) ELSE rec[f]]

\* the error_type of a ValidationError's first error, from its pydantic type
\* and its lower-cased message
ClassifyReadingError(type, msg_lower) ==
    IF Contains(<<"out", "of", "plausible", "range">>, msg_lower) THEN "VALUE_ERROR"
    ELSE IF \/ Contains(<<"invalid", "date", "format">>, msg_lower)
            \/ Contains(<<"invalid", "timestamp", "format">>, msg_lower)
            \/ Contains(<<"invalid", "email", "format">>, msg_lower)
            \/ Contains(<<"invalid", "phone", "format">>, msg_lower)
         THEN "INVALID_FORMAT"
    ELSE IF type = "missing" THEN "MISSING_VALUE"
    ELSE IF type \in {"int_parsing", "float_parsing", "string_type", "bool_parsing",
                      "datetime_parsing", "finite_number"}
         THEN "INVALID_TYPE"
    ELSE IF type \in {"value_error", "assertion_error", "less_than", "greater_than",
                      "less_than_equal", "greater_than_equal", "multiple_of"}
         THEN "VALUE_ERROR"
    ELSE IF \/ Contains(<<"value", "is", "not", "a", "valid", "float">>, msg_lower)
            \/ Contains(<<"value", "is", "not", "a", "valid", "integer">>, msg_lower)
            \/ Contains(<<"input", "should", "be", "a", "valid", "number">>, msg_lower)
            \/ Contains(<<"input", "should", "be", "a", "valid", "integer">>, msg_lower)
         THEN "INVALID_TYPE"
    ELSE IF \/ Contains(<<"field", "required">>, msg_lower)
            \/ Contains(<<"missing">>, msg_lower)
         THEN "MISSING_VALUE"
    ELSE "INVALID_FORMAT"
ReadingErrorType(type, msg) == ClassifyReadingError(type, Lower(msg))

MsgDiastolic == <<"Diastolic", "BP", "is", "greater", "than", "or", "equal", "to",
                  "Systolic", "BP", ".">>

\* a variant of BpInconsistent with > for >=: equal pressures pass
BpStrictlyInconsistent(m) ==
    /\ ~IsNone(m["systolic_bp"])
    /\ ~IsNone(m["diastolic_bp"])
    /\ m["diastolic_bp"][2] > m["systolic_bp"][2]

\* both pressures present and diastolic >= systolic
BpInconsistent(m) ==
    /\ ~IsNone(m["systolic_bp"])
    /\ ~IsNone(m["diastolic_bp"])
    /\ m["diastolic_bp"][2] >= m["systolic_bp"][2]

\* what the transformer returns: at most one entity and at most one error,
\* and the raw record as the call leaves it
Returned(entity, error, rec) == [entity |-> entity, error |-> error, record |-> rec]

\* the cross-field check rejects an inconsistent model
BpRejection(m, ref, rec) ==
    Returned(Nothing,
             Optional(ErrorRecord(ref, FieldName("blood_pressure"), "LOGICAL_INCONSISTENCY",
                                  MsgDiastolic,
                                  <<"str", "bp", m["systolic_bp"][2], m["diastolic_bp"][2]>>,
                                  "device_readings")),
             rec)

\* a ValidationError becomes an ErrorRecord
ReadingValidationError(v, rec, ref) ==
    Returned(Nothing,
             Optional(ErrorRecord(ref, FieldName(v.loc), ReadingErrorType(v.type, v.msg),
                                  v.msg, Get(rec, v.loc, None), "device_readings")),
             rec)

\* any other exception
ReadingUnexpectedError(rec, record_index) ==
    Returned(Nothing,
             Optional(ErrorRecord(Get(rec, "reading_id", PyInt(record_index)), None,
                                  "TRANSFORMATION_ERROR", MsgKeywords, <<"str", "repr", rec>>,
                                  "device_readings")),
             rec)

\* validated_reading.reading_id is populated when it is None
BackfillReadingId(m, ref) ==
    IF IsNone(m["reading_id"]) THEN [m EXCEPT !["reading_id"] = ref] ELSE m

\* a variant of CrossCheck that returns the reading together with the error
CrossCheckKeeping(validated_reading, ref, rec) ==
    IF BpInconsistent(validated_reading)
    THEN Returned(Optional(validated_reading), BpRejection(validated_reading, ref, rec).error, rec)
    ELSE Returned(Optional(validated_reading), Nothing, rec)

CrossCheck(validated_reading, ref, rec) ==
    IF BpInconsistent(validated_reading) THEN BpRejection(validated_reading, ref, rec)
    ELSE Returned(Optional(validated_reading), Nothing, rec)

ReadingValidated(v, rec, ref) ==
    IF v.ok THEN CrossCheck(BackfillReadingId(v.model, ref), ref, rec)
    ELSE ReadingValidationError(v, rec, ref)

TransformCoerced(rec, record_index) ==
    IF NonStrKey \in DOMAIN rec THEN ReadingUnexpectedError(rec, record_index)
    ELSE ReadingValidated(DeviceReading(rec), rec, Get(rec, "reading_id", PyInt(record_index)))

transform_device_reading(reading_record, record_index) ==
    TransformCoerced(CoerceRecord(reading_record), record_index)

(***************************************************************************)
(* schemas.Patient                                                         *)
(***************************************************************************)
PatientFields == <<"name", "dob", "gender", "address", "email", "phone", "sex", "id">>

MsgDob == <<"Invalid", "date", "format", ".", "Expected", "YYYY-MM-DD", "or", "MM/DD/YYYY",
            ".">>
MsgEmail == <<"Invalid", "email", "format", ".">>
MsgPhone == <<"Invalid", "phone", "format", ".">>

\* A date string <<"str", "date", o, y, m, d, p>>: the numbers y, m, d written
\* in the order o ("Y-m-d", "m/d/Y" or "Y/m/d"), the year with four digits,
\* month and day with two digits when p, without a leading zero otherwise.
DateStr(o, y, m, d, p) == <<"str", "date", o, y, m, d, p>>

IsLeap(y) == (y % 4 = 0 /\ y % 100 # 0) \/ y % 400 = 0
DaysIn(y, m) == IF m = 2 THEN (IF IsLeap(y) THEN 29 ELSE 28)
                ELSE IF m \in {4, 6, 9, 11} THEN 30 ELSE 31
IsDate(y, m, d) == m \in 1..12 /\ d \in 1..DaysIn(y, m)

\* datetime.strptime(value, fmt) succeeds; %m and %d take one or two digits
Strptime(v, fmt) == v[2] = "date" /\ v[3] = fmt /\ IsDate(v[4], v[5], v[6])
\* dt_obj.strftime('%Y-%m-%d')
Strftime(y, m, d) == DateStr("Y-m-d", y, m, d, TRUE)

validate_dob(v) ==
    IF Strptime(v, "Y-m-d") THEN Ok(v)
    ELSE IF Strptime(v, "m/d/Y") THEN Ok(Strftime(v[4], v[5], v[6]))
    ELSE ValueError(MsgDob)

\* re.match(r"[^@]+@[^@]+\.[^@]+", value): a match of a prefix of value
EmailMatches(cs) ==
    \E a \in 1..Len(cs) : \E p \in 1..Len(cs) :
        /\ \A k \in 1..(a - 1) : cs[k] # "@"
        /\ a > 1
        /\ cs[a] = "@"
        /\ p > a + 1
        /\ \A k \in (a + 1)..(p - 1) : cs[k] # "@"
        /\ cs[p] = "."
        /\ p < Len(cs)
        /\ cs[p + 1] # "@"

validate_email(v) ==
    IF v[2] = "chars" /\ EmailMatches(v[3]) THEN Ok(v) ELSE ValueError(MsgEmail)

\* re.match(r"^[0-9\s\-\(\)]+$", value)
PhoneChar(c) == IsDigit(c) \/ c \in {" ", "-", "(", ")"}
PhoneMatches(cs) == cs # <<>> /\ \A k \in 1..Len(cs) : PhoneChar(cs[k])

RECURSIVE LStrip(_)
LStrip(cs) == IF cs # <<>> /\ cs[1] = " " THEN LStrip(Tail(cs)) ELSE cs
RECURSIVE RStrip(_)
RStrip(cs) == IF cs # <<>> /\ cs[Len(cs)] = " " THEN RStrip(SubSeq(cs, 1, Len(cs) - 1)) ELSE cs
\* value.strip()
Strip(cs) == RStrip(LStrip(cs))

validate_phone(v) ==
    IF v[2] = "chars" /\ PhoneMatches(v[3]) THEN Ok(PyStr(Strip(v[3]))) ELSE ValueError(MsgPhone)

UpperLetters == <<"A", "E", "F", "L", "M", "P">>
LowerLetters == <<"a", "e", "f", "l", "m", "p">>
LetterAt(letters, c) == CHOOSE k \in 1..Len(letters) : letters[k] = c
LowerChar(c) == IF c \in Range(UpperLetters) THEN LowerLetters[LetterAt(UpperLetters, c)] ELSE c
UpperChar(c) == IF c \in Range(LowerLetters) THEN UpperLetters[LetterAt(LowerLetters, c)] ELSE c
\* value.lower().capitalize()
Capitalize(cs) == [k \in 1..Len(cs) |-> IF k = 1 THEN UpperChar(LowerChar(cs[k]))
                                        ELSE LowerChar(cs[k])]

normalize_case(v) == IF v[2] = "chars" THEN Ok(PyStr(Capitalize(v[3]))) ELSE Ok(v)

PatientValidator(f, v) ==
    CASE f = "dob" -> validate_dob(v)
      [] f = "email" -> validate_email(v)
      [] f = "phone" -> validate_phone(v)
      [] f \in {"gender", "sex"} -> normalize_case(v)
      [] OTHER -> Ok(v)

PatientKind(f) == IF f = "id" THEN "any" ELSE "str"

PatientChecked(rec, f, typed) ==
    IF typed.ok /\ f \in DOMAIN rec THEN PatientValidator(f, typed.value) ELSE typed

PatientField(rec, f) == PatientChecked(rec, f, PydField(rec, f, PatientKind(f), f = "id"))

Patient(rec) ==
    FieldResults(PatientFields,
                 [k \in 1..Len(PatientFields) |-> PatientField(rec, PatientFields[k])])

(***************************************************************************)
(* transformation.transform_patient                                        *)
(***************************************************************************)
ClassifyPatientError(msg_lower) ==
    IF Contains(<<"format">>, msg_lower) THEN "INVALID_FORMAT" ELSE "VALIDATION_ERROR"
PatientErrorType(type, msg) == ClassifyPatientError(Lower(msg))

PatientValidationError(v, rec, ref) ==
    Returned(Nothing,
             Optional(ErrorRecord(ref, FieldName(v.loc), PatientErrorType(v.type, v.msg),
                                  v.msg, Get(rec, v.loc, None), "patients")),
             rec)

PatientUnexpectedError(rec, record_index) ==
    Returned(Nothing,
             Optional(ErrorRecord(Get(rec, "id", PyInt(record_index)), None,
                                  "TRANSFORMATION_ERROR", MsgKeywords, <<"str", "repr", rec>>,
                                  "patients")),
             rec)

\* validated_patient.id is populated with the index when it is None
BackfillPatientId(m, record_index) ==
    IF IsNone(m["id"]) THEN [m EXCEPT !["id"] = PyInt(record_index)] ELSE m

PatientValidated(v, rec, record_index) ==
    IF v.ok THEN Returned(Optional(BackfillPatientId(v.model, record_index)), Nothing, rec)
    ELSE PatientValidationError(v, rec, Get(rec, "id", PyInt(record_index)))

transform_patient(patient_record, record_index) ==
    IF NonStrKey \in DOMAIN patient_record
    THEN PatientUnexpectedError(patient_record, record_index)
    ELSE PatientValidated(Patient(patient_record), patient_record, record_index)

(***************************************************************************)
(* Raw records.  A raw record is a function from the keys it holds to      *)
(* Python values; the sets below vary one or two keys of a valid record.   *)
(***************************************************************************)
Absent == <<"absent">>

\* rec with key f set to v, or without key f when v is Absent
With(rec, f, v) ==
    IF v = Absent THEN [g \in DOMAIN rec \ {f} |-> rec[g]]
    ELSE [g \in DOMAIN rec \cup {f} |-> IF g = f THEN v ELSE rec[g]]

Chars(s) == PyStr(s)

\* base with every choice of one key, or of two keys, in place
Variations(base, keys, choices) ==
    UNION {UNION {{With(With(base, f, v), g, w) : v \in choices[f], w \in choices[g]} :
                  g \in keys} : f \in keys}

BaseReading == [timestamp |-> IsoStr(10, "Z")]

NumberChoices ==
    {Absent, None, PyList, PyInt(0), PyInt(120), PyInt(1000), PyInt(-10),
     PyFloat(1), PyFloat(99999), PyFloat(12050),
     Chars(<<>>), Chars(<<"1", "2", "0">>), Chars(<<"1", "2", "0", ".", "5">>),
     Chars(<<"5", "0", "0", "0">>), Chars(<<"h", "i", "g", "h">>), Chars(<<".">>)}

PressureChoices ==
    {Absent, None, PyInt(0), PyInt(80), PyInt(120), PyInt(299), PyInt(300), PyInt(350),
     PyFloat(12000), PyFloat(12050),
     Chars(<<>>), Chars(<<"8", "0">>), Chars(<<"1", "2", "0", ".", "5">>),
     Chars(<<"a", "b", "c">>)}

ReadingChoices(f) ==
    CASE f = "reading_id" -> {Absent, None, Chars(<<"r", "1">>), PyInt(7)}
      [] f = "id" -> {Absent, Chars(<<"r", "9">>)}
      [] f = "patient_id" -> {Absent, None, PyInt(1), Chars(<<"1">>), Chars(<<>>),
                              Chars(<<"p", "1">>), PyFloat(150), PyList}
      [] f = "timestamp" -> {Absent, None, PyInt(5), IsoStr(9, "Z"), IsoStr(10, ""),
                             Chars(<<"b", "a", "d">>)}
      [] f \in {"glucose", "weight"} -> NumberChoices
      [] f \in {"systolic_bp", "diastolic_bp"} -> PressureChoices
      [] f = NonStrKey -> {Absent, PyList}

\* the fields of the model, the key `id` that a source may use for the
\* reading's identifier, and the key that is not a string
ReadingKeys == Range(DeviceReadingFields) \cup {"id", NonStrKey}

RawReadings ==
    Variations(BaseReading, ReadingKeys, [f \in ReadingKeys |-> ReadingChoices(f)])

BasePatient ==
    [name |-> Chars(<<"A", "l">>), dob |-> DateStr("Y-m-d", 1990, 1, 1, TRUE),
     gender |-> Chars(<<"F">>), address |-> Chars(<<"x">>),
     email |-> Chars(<<"a", "@", "e", ".", "c">>), phone |-> Chars(<<"1">>),
     sex |-> Chars(<<"F">>), id |-> Chars(<<"p", "1">>)]

TextChoices == {Absent, None, PyInt(5), Chars(<<>>), Chars(<<"A", "l">>)}
CaseChoices == {Absent, PyInt(1), Chars(<<>>), Chars(<<"M", "A", "L", "E">>), Chars(<<"f">>)}

PatientChoices(f) ==
    CASE f \in {"name", "address"} -> TextChoices
      [] f \in {"gender", "sex"} -> CaseChoices
      [] f = "dob" -> {Absent, PyInt(1990), Chars(<<"b", "a", "d">>),
                       DateStr("Y-m-d", 1990, 1, 5, FALSE), DateStr("Y-m-d", 1990, 13, 1, TRUE),
                       DateStr("Y-m-d", 2023, 2, 29, TRUE), DateStr("Y-m-d", 2024, 2, 29, TRUE),
                       DateStr("m/d/Y", 1985, 3, 15, TRUE), DateStr("m/d/Y", 1985, 3, 5, FALSE),
                       DateStr("m/d/Y", 1985, 15, 3, TRUE), DateStr("Y/m/d", 1990, 1, 1, TRUE)}
      [] f = "email" -> {Absent, PyInt(5), Chars(<<"a", "@">>), Chars(<<"@", "e", ".", "c">>),
                         Chars(<<"a", "e", ".", "c">>), Chars(<<"a", "@", ".", "c">>),
                         Chars(<<"a", "@", "e", ".">>), Chars(<<"a", "@", "e", ".", "c", "@", "d">>),
                         Chars(<<"a", "@", "@", "e", ".", "c">>)}
      [] f = "phone" -> {Absent, None, Chars(<<>>), Chars(<<"5", "-", "1">>),
                         Chars(<<" ", "1", " ">>), Chars(<<"(", "5", ")", " ", "5">>),
                         Chars(<<"a", "b", "c">>)}
      [] f = "id" -> {Absent, None, PyInt(1), Chars(<<"p", "2">>)}
      [] f = NonStrKey -> {Absent, PyList}

PatientKeys == Range(PatientFields) \cup {NonStrKey}

RawPatients ==
    Variations(BasePatient, PatientKeys, [f \in PatientKeys |-> PatientChoices(f)])

\* the ordinal index of a record in its list
Indexes == 0..1

(***************************************************************************)
(* The variables of a machine that is not running.                         *)
(***************************************************************************)
IdleRecord ==
    /\ r_kind = "none" /\ r_raw = <<>> /\ r_idx = 0 /\ r_out = Nothing /\ r_pc = "idle"

IdlePipeline ==
    /\ raw_patient_data = <<>> /\ raw_device_data = <<>>
    /\ processed_patients = <<>> /\ processed_readings = <<>>
    /\ all_error_records = <<>> /\ last_timestamp_dict = <<>>
    /\ i = 0 /\ pc = "idle" /\ ts_log = <<>>
    /\ first_run = Nothing

IdleMain == stage = "idle" /\ running = {} /\ exception = "" /\ loading_names = {}

IdleErrors ==
    /\ errors = <<>> /\ loaded_errors_count = 0 /\ db_error_loading_errors = <<>>
    /\ etaken = 0 /\ epc = "idle" /\ error_id_seq = 1

IdleSchema ==
    /\ spc = "idle" /\ schema = {} /\ schema_txn = {} /\ ddl_taken = 0
    /\ ddl_result = Nothing /\ schema_calls = 0 /\ schema_before = {}

IdleOthers == IdleMain /\ IdleErrors /\ IdleSchema

IdleLoad ==
    /\ conn = "none" /\ patients = <<>> /\ readings = <<>>
    /\ loaded_patients_count = 0 /\ loaded_readings_count = 0
    /\ db_loading_errors = <<>> /\ taken = 0 /\ lpc = "idle"
    /\ store = {} /\ txn = <<>> /\ store_before = {} /\ trace = <<>>
    /\ first_summary = Nothing

(***************************************************************************)
(* SpecRecord: one raw record through its transformer.                     *)
(***************************************************************************)
InitRecord ==
    /\ \/ r_kind = "patient" /\ r_raw \in RawPatients
       \/ r_kind = "reading" /\ r_raw \in RawReadings
    /\ r_idx \in Indexes
    /\ r_out = Nothing
    /\ r_pc = "call"
    /\ IdlePipeline /\ IdleLoad /\ IdleOthers

TransformPatient ==
    /\ r_pc = "call" /\ r_kind = "patient"
    /\ r_out' = Optional(transform_patient(r_raw, r_idx))
    /\ r_pc' = "returned"
    /\ UNCHANGED <<r_kind, r_raw, r_idx, pvars, lvars, hvars, ovars>>

TransformReading ==
    /\ r_pc = "call" /\ r_kind = "reading"
    /\ r_out' = Optional(transform_device_reading(r_raw, r_idx))
    /\ r_pc' = "returned"
    /\ UNCHANGED <<r_kind, r_raw, r_idx, pvars, lvars, hvars, ovars>>

NextRecord == TransformPatient \/ TransformReading

SpecRecord == InitRecord /\ [][NextRecord]_vars

(***************************************************************************)
(* datetime: the wall-clock hour and the offset that fromisoformat read.   *)
(***************************************************************************)
\* datetime.fromisoformat(s.replace('Z', '+00:00'))
FromIsoFormat(v) == [h |-> v[3], off |-> IF v[4] = "Z" THEN "+00:00" ELSE v[4]]
Aware(dt) == dt.off # ""
OffsetMinutes(off) == CASE off = "+00:00" -> 0 [] off = "+01:00" -> 60 [] OTHER -> 0
\* minutes since midnight: UTC for an aware datetime, wall-clock for a naive one
Instant(dt) == 60 * dt.h - OffsetMinutes(dt.off)
\* a < b and a >= b raise TypeError between a naive and an aware datetime
Comparable(a, b) == Aware(a) = Aware(b)
Earlier(a, b) == Instant(a) < Instant(b)
\* dt.isoformat()
IsoFormat(dt) == IsoStr(dt.h, dt.off)

(***************************************************************************)
(* transformation.pipeline_transform                                       *)
(***************************************************************************)
GlobalKey == Chars(<<"global">>)

\* the key of the temporal check
TemporalKey(reading) ==
    IF ~IsNone(reading["patient_id"]) THEN reading["patient_id"] ELSE GlobalKey

\* last_timestamp_dict.get(key)
LastTimestamp(dict, key) == IF key \in DOMAIN dict THEN Optional(dict[key]) ELSE Nothing

\* dict[key] = value
Put(dict, key, value) ==
    [k \in DOMAIN dict \cup {key} |-> IF k = key THEN value ELSE dict[k]]

TimestampError(reading, record, index, last_timestamp, key) ==
    ErrorRecord(IF ~IsNone(reading["reading_id"]) THEN reading["reading_id"]
                ELSE Get(record, "reading_id", PyInt(index)),
                FieldName("timestamp"), "TIMESTAMP_ORDER_INCONSISTENCY",
                <<"Timestamp", reading["timestamp"], "is earlier than previous",
                  IsoFormat(last_timestamp), "for key", key>>,
                reading["timestamp"], "device_readings")

\* a variant of OutOfOrder with <= for <: an equal timestamp is flagged too
OutOfOrderOrEqual(current_timestamp, last) ==
    last # Nothing /\ ~Earlier(last[1], current_timestamp)

\* `last_timestamp and current_timestamp < last_timestamp`
OutOfOrder(current_timestamp, last) ==
    last # Nothing /\ Earlier(current_timestamp, last[1])

\* a variant of Advances without the guard: the watermark is the last timestamp
AlwaysAdvances(current_timestamp, last) == TRUE

\* `not last_timestamp or current_timestamp >= last_timestamp`
Advances(current_timestamp, last) ==
    last = Nothing \/ ~Earlier(current_timestamp, last[1])

\* `e not in all_error_records`, then append
AppendNew(listed, e) ==
    IF \E k \in 1..Len(listed) : ErrorEq(listed[k], e) THEN listed ELSE Append(listed, e)

RECURSIVE AppendAllNew(_, _)
AppendAllNew(listed, es) ==
    IF es = <<>> THEN listed ELSE AppendAllNew(AppendNew(listed, es[1]), Tail(es))

\* a variant of Keeps that leaves a flagged reading out
KeepsUnflagged(reading, flagged) == ~flagged

\* whether a validated reading joins processed_readings
Keeps(reading, flagged) == TRUE

PatientOk == BasePatient
PatientNoId == With(BasePatient, "id", Absent)
PatientNoName == With(BasePatient, "name", Absent)
PatientNoDob == With(BasePatient, "dob", Absent)
PatientBatches == {<<PatientOk>>, <<PatientNoName, PatientOk, PatientNoDob, PatientNoId>>}

PipelineTimestamps == {IsoStr(9, "Z"), IsoStr(10, "Z"), IsoStr(11, "Z"), IsoStr(11, "+01:00"),
                       IsoStr(10, ""), Chars(<<"b", "a", "d">>)}
\* reading_id and patient_id: neither, the patient alone, both
PipelineIdentities == {<<Absent, Absent>>, <<Absent, PyInt(1)>>, <<Chars(<<"r", "1">>), PyInt(1)>>}
PipelineReadings ==
    {With(With([timestamp |-> ts], "reading_id", ids[1]), "patient_id", ids[2]) :
        ts \in PipelineTimestamps, ids \in PipelineIdentities}

Init ==
    /\ raw_patient_data \in PatientBatches
    /\ raw_device_data = <<>>
    /\ processed_patients = <<>> /\ processed_readings = <<>>
    /\ all_error_records = <<>> /\ last_timestamp_dict = <<>>
    /\ i = 0 /\ pc = "patients" /\ ts_log = <<>>
    /\ first_run = Nothing
    /\ IdleRecord /\ IdleLoad /\ IdleOthers

\* a variant of PatientIteration that puts the new patient and the new error
\* at the head of their lists
PatientIterationAtHead(out) ==
    /\ processed_patients' = out.entity \o processed_patients
    /\ all_error_records' = out.error \o all_error_records

\* `if patient: ...append(patient)`, `if error: ...append(error)`
PatientIteration(out) ==
    /\ processed_patients' = processed_patients \o out.entity
    /\ all_error_records' = all_error_records \o out.error

\* one patient record
PatientStep ==
    /\ pc = "patients" /\ i < Len(raw_patient_data)
    /\ PatientIteration(transform_patient(raw_patient_data[i + 1], i))
    /\ i' = i + 1
    /\ UNCHANGED <<raw_patient_data, raw_device_data, processed_readings,
                   last_timestamp_dict, pc, ts_log, rvars, lvars, hvars, ovars>>

\* a variant of NewTimestampDict that keeps the watermarks the variable held
KeptTimestampDict(held) == held

\* `last_timestamp_dict: Dict[Any, datetime] = {}`, whatever the variable held
NewTimestampDict(held) == <<>>

\* the patient loop is over
StartReadings ==
    /\ pc = "patients" /\ i = Len(raw_patient_data)
    /\ pc' = "readings" /\ i' = 0
    /\ last_timestamp_dict' = NewTimestampDict(last_timestamp_dict)
    /\ UNCHANGED <<raw_patient_data, raw_device_data, processed_patients,
                   processed_readings, all_error_records, ts_log, rvars, lvars, hvars, ovars>>

\* the end of an iteration: current_error_list joins all_error_records
EndIteration(out, ts_error) ==
    /\ all_error_records' = AppendAllNew(all_error_records, out.error \o ts_error)
    /\ ts_log' = Append(ts_log, [entity |-> out.entity, ts_error |-> ts_error])
    /\ i' = i + 1
    /\ pc' = pc

\* no reading: only the transformer's error is recorded
Rejected(out) ==
    /\ EndIteration(out, <<>>)
    /\ UNCHANGED <<processed_readings, last_timestamp_dict>>

\* a reading whose timestamp compares with the watermark of its key
Checked(out, reading, key, current_timestamp, last, flagged) ==
    /\ last_timestamp_dict' =
          IF Advances(current_timestamp, last)
          THEN Put(last_timestamp_dict, key, current_timestamp)
          ELSE last_timestamp_dict
    /\ processed_readings' =
          IF Keeps(reading, flagged) THEN Append(processed_readings, reading)
          ELSE processed_readings
    /\ EndIteration(out, IF flagged
                         THEN <<TimestampError(reading, out.record, i, last[1], key)>>
                         ELSE <<>>)

\* the comparison raises TypeError, which `except ValueError` lets through
Raised ==
    /\ pc' = "raised"
    /\ UNCHANGED <<processed_readings, last_timestamp_dict, all_error_records, ts_log, i>>

Compared(out, reading, key, current_timestamp, last) ==
    IF last # Nothing /\ ~Comparable(current_timestamp, last[1]) THEN Raised
    ELSE Checked(out, reading, key, current_timestamp, last,
                 OutOfOrder(current_timestamp, last))

Keyed(out, reading, key) ==
    Compared(out, reading, key, FromIsoFormat(reading["timestamp"]),
             LastTimestamp(last_timestamp_dict, key))

Accepted(out, reading) == Keyed(out, reading, TemporalKey(reading))

ReadingIteration(out) ==
    /\ raw_device_data' = Append(raw_device_data, out.record)
    /\ IF out.entity = Nothing THEN Rejected(out) ELSE Accepted(out, out.entity[1])

\* one device record: `record` is the next element of raw_device_data, which
\* the loop reads when it gets there
ReadingStep ==
    /\ pc = "readings" /\ i < MaxReadings
    /\ \E record \in PipelineReadings : ReadingIteration(transform_device_reading(record, i))
    /\ UNCHANGED <<raw_patient_data, processed_patients, rvars, lvars, hvars, ovars>>

\* raw_device_data is exhausted
Return ==
    /\ pc = "readings"
    /\ pc' = "returned"
    /\ UNCHANGED <<raw_patient_data, raw_device_data, processed_patients,
                   processed_readings, all_error_records, last_timestamp_dict, i,
                   ts_log, rvars, lvars, hvars, ovars>>

Next == PatientStep \/ StartReadings \/ ReadingStep \/ Return

Spec == Init /\ [][Next]_vars

(***************************************************************************)
(* pipeline_transform called twice on one input: the second run is given   *)
(* the lists the first run was given, whose records the first run's        *)
(* coercion loop has changed in place.                                     *)
(***************************************************************************)
MaxRerun == 3
MaxLoadErrors == 3
MaxSchemaCalls == 3

RerunReadings ==
    {[timestamp |-> ts, glucose |-> g] :
        ts \in {IsoStr(9, "Z"), IsoStr(10, "Z"), IsoStr(10, "")},
        g \in {Chars(<<"1", "2", "0">>), Chars(<<"5", "0", "0", "0">>), Chars(<<>>)}}

\* one device record of the first run
RerunReadingStep ==
    /\ first_run = Nothing
    /\ pc = "readings" /\ i < MaxRerun
    /\ \E record \in RerunReadings : ReadingIteration(transform_device_reading(record, i))
    /\ UNCHANGED <<raw_patient_data, processed_patients, rvars, lvars, hvars, ovars>>

\* the caller keeps what the first run returned, or that it raised, and calls
\* pipeline_transform again with the same two lists
RunAgain ==
    /\ pc \in {"returned", "raised"} /\ first_run = Nothing
    /\ first_run' = Optional([processed_patients |-> processed_patients,
                              processed_readings |-> processed_readings,
                              all_error_records |-> all_error_records,
                              raw_device_data |-> raw_device_data,
                              pc |-> pc])
    /\ raw_device_data' = <<>>
    /\ processed_patients' = <<>> /\ processed_readings' = <<>>
    /\ all_error_records' = <<>>
    /\ i' = 0 /\ pc' = "patients" /\ ts_log' = <<>>
    /\ UNCHANGED <<raw_patient_data, last_timestamp_dict, first_summary, rvars, lvars,
                   ovars>>

\* one device record of the second run: the record the first run left
SecondReadingStep ==
    /\ first_run # Nothing
    /\ pc = "readings" /\ i < Len(first_run[1].raw_device_data)
    /\ ReadingIteration(transform_device_reading(first_run[1].raw_device_data[i + 1], i))
    /\ UNCHANGED <<raw_patient_data, processed_patients, rvars, lvars, hvars, ovars>>

FirstReturn == first_run = Nothing /\ Return
SecondReturn == first_run # Nothing /\ i = Len(first_run[1].raw_device_data) /\ Return

NextRerun ==
    \/ PatientStep \/ StartReadings
    \/ RerunReadingStep \/ FirstReturn
    \/ RunAgain
    \/ SecondReadingStep \/ SecondReturn

SpecRerun == Init /\ [][NextRerun]_vars

(***************************************************************************)
(* loading.load_data, on a connection to a store with transactions: the    *)
(* rows of `store` are committed, the rows of `txn` were inserted by the   *)
(* open transaction and are lost on rollback; `store_before` is the store  *)
(* as the call found it, and `trace` the calls the connection saw.         *)
(***************************************************************************)
\* the statements and calls the connection saw, in order
Call(op, table, ref, result) == [op |-> op, table |-> table, ref |-> ref, result |-> result]

Row(table, id) == <<table, id>>

\* the objects of a batch
PatientModel(id) == [BasePatient EXCEPT !["id"] = id]
ReadingModel(rid) ==
    [f \in Range(DeviceReadingFields) |->
        CASE f = "reading_id" -> rid
          [] f = "timestamp" -> IsoStr(10, "Z")
          [] OTHER -> None]

\* getattr(obj, name) succeeds: the name is a field of the model
HasAttr(obj, name) == name \in DOMAIN obj

RECURSIVE SeqsUpTo(_, _)
SeqsUpTo(S, n) ==
    IF n = 0 THEN {<<>>}
    ELSE SeqsUpTo(S, n - 1) \cup {Append(q, x) : q \in {r \in SeqsUpTo(S, n - 1) : Len(r) = n - 1}, x \in S}

LoadPatients == {PatientModel(Chars(<<"p", "1">>)), PatientModel(Chars(<<"p", "2">>))}
LoadReadings == {ReadingModel(Chars(<<"r", "1">>)), ReadingModel(Chars(<<"r", "2">>))}
\* what the store holds before the call
StoredBefore == {{}, {Row("patients", Chars(<<"p", "1">>))}}
\* how a statement ends: it runs, it raises psycopg2.Error, or it raises
\* another exception
Faults == {"none", "db_error", "other_error"}

InitLoad ==
    /\ conn \in {"none", "open"}
    /\ patients \in SeqsUpTo(LoadPatients, MaxLoadPatients)
    /\ readings \in SeqsUpTo(LoadReadings, MaxLoadReadings)
    /\ loaded_patients_count = 0 /\ loaded_readings_count = 0
    /\ db_loading_errors = <<>>
    /\ taken = 0 /\ lpc = "start"
    /\ store \in StoredBefore /\ txn = <<>> /\ store_before = store /\ trace = <<>>
    /\ first_summary = Nothing
    /\ IdleRecord /\ IdlePipeline /\ IdleOthers

\* `if not conn`
NoConnection ==
    /\ lpc = "start" /\ conn = "none"
    /\ db_loading_errors' = Append(db_loading_errors, [type |-> "NO_DB_CONNECTION"])
    /\ lpc' = "done"
    /\ UNCHANGED <<conn, patients, readings, loaded_patients_count, loaded_readings_count,
                   taken, store, txn, store_before, trace, rvars, pvars, hvars, ovars>>

\* the handlers of the outer try: rollback, one error without a reference,
\* and the summary is returned
OuterHandler(type, calls) ==
    /\ txn' = <<>>
    /\ trace' = trace \o calls \o <<Call("rollback", "", None, "ok")>>
    /\ db_loading_errors' = Append(db_loading_errors, [type |-> type])
    /\ lpc' = "done"

\* `with conn.cursor() as cur`
OpenCursor ==
    /\ lpc = "start" /\ conn = "open"
    /\ \E fault \in {"none", "db_error"} :
          IF fault = "none"
          THEN /\ lpc' = "patients"
               /\ trace' = Append(trace, Call("cursor", "", None, "ok"))
               /\ UNCHANGED <<db_loading_errors, txn>>
          ELSE OuterHandler("DB_OPERATION_ERROR", <<Call("cursor", "", None, fault)>>)
    /\ UNCHANGED <<conn, patients, readings, loaded_patients_count, loaded_readings_count,
                   taken, store, store_before, rvars, pvars, hvars, ovars>>

\* INSERT ... ON CONFLICT (id) DO NOTHING: cur.rowcount
RowCount(row) == IF row \in store \cup Range(txn) THEN 0 ELSE 1

\* the statement ran
Executed(table, id, rowcount) ==
    /\ txn' = IF rowcount > 0 THEN Append(txn, Row(table, id)) ELSE txn
    /\ trace' = Append(trace, Call("insert", table, id,
                                   IF rowcount > 0 THEN "inserted" ELSE "conflict"))
    /\ UNCHANGED db_loading_errors

\* the statement raised: conn.rollback() and one error for the record
Failed(table, id, fault, type) ==
    /\ txn' = <<>>
    /\ trace' = trace \o <<Call("insert", table, id, fault), Call("rollback", "", None, "ok")>>
    /\ db_loading_errors' = Append(db_loading_errors, [type |-> type, reference |-> id])

\* one patient of the batch
LoadPatient ==
    /\ lpc = "patients" /\ taken < Len(patients)
    /\ \E fault \in Faults :
          CASE fault = "none" ->
                 /\ Executed("patients", patients[taken + 1]["id"],
                             RowCount(Row("patients", patients[taken + 1]["id"])))
                 /\ loaded_patients_count' =
                       loaded_patients_count + RowCount(Row("patients", patients[taken + 1]["id"]))
            [] fault = "db_error" ->
                 /\ Failed("patients", patients[taken + 1]["id"], fault, "PATIENT_INSERT_ERROR")
                 /\ UNCHANGED loaded_patients_count
            [] fault = "other_error" ->
                 /\ Failed("patients", patients[taken + 1]["id"], fault,
                           "PATIENT_UNEXPECTED_ERROR")
                 /\ UNCHANGED loaded_patients_count
    /\ taken' = taken + 1
    /\ UNCHANGED <<conn, patients, readings, loaded_readings_count, lpc, store, store_before,
                   rvars, pvars, hvars, ovars>>

\* the patient loop is over
LoadReadingsStart ==
    /\ lpc = "patients" /\ taken = Len(patients)
    /\ lpc' = "readings" /\ taken' = 0
    /\ UNCHANGED <<conn, patients, readings, loaded_patients_count, loaded_readings_count,
                   db_loading_errors, store, txn, store_before, trace, rvars, pvars, hvars, ovars>>

\* one reading of the batch.  The statement's arguments start with
\* reading.id: when the model has no such attribute, AttributeError is raised
\* before the statement runs, `except Exception` rolls back and raises it
\* again on its own reading.id, and the outer handler ends the call.
LoadReading ==
    /\ lpc = "readings" /\ taken < Len(readings)
    /\ IF ~HasAttr(readings[taken + 1], "id")
       THEN /\ OuterHandler("LOAD_DATA_UNEXPECTED_ERROR",
                            <<Call("insert", "device_readings",
                                   readings[taken + 1]["reading_id"], "attribute_error"),
                              Call("rollback", "", None, "ok")>>)
            /\ UNCHANGED <<loaded_readings_count, taken>>
       ELSE /\ \E fault \in Faults :
                 CASE fault = "none" ->
                        /\ Executed("device_readings", readings[taken + 1]["id"],
                                    RowCount(Row("device_readings", readings[taken + 1]["id"])))
                        /\ loaded_readings_count' =
                              loaded_readings_count
                              + RowCount(Row("device_readings", readings[taken + 1]["id"]))
                   [] fault = "db_error" ->
                        /\ Failed("device_readings", readings[taken + 1]["id"], fault,
                                  "READING_INSERT_ERROR")
                        /\ UNCHANGED loaded_readings_count
                   [] fault = "other_error" ->
                        /\ Failed("device_readings", readings[taken + 1]["id"], fault,
                                  "READING_UNEXPECTED_ERROR")
                        /\ UNCHANGED loaded_readings_count
            /\ taken' = taken + 1
            /\ UNCHANGED lpc
    /\ UNCHANGED <<conn, patients, readings, loaded_patients_count, store, store_before,
                   rvars, pvars, hvars, ovars>>

\* conn.commit(), and the summary is returned
Commit ==
    /\ lpc = "readings" /\ taken = Len(readings)
    /\ \E fault \in {"none", "db_error"} :
          IF fault = "none"
          THEN /\ store' = store \cup Range(txn)
               /\ txn' = <<>>
               /\ trace' = Append(trace, Call("commit", "", None, "ok"))
               /\ lpc' = "done"
               /\ UNCHANGED db_loading_errors
          ELSE /\ OuterHandler("DB_OPERATION_ERROR", <<Call("commit", "", None, fault)>>)
               /\ UNCHANGED store
    /\ UNCHANGED <<conn, patients, readings, loaded_patients_count, loaded_readings_count,
                   taken, store_before, rvars, pvars, hvars, ovars>>

NextLoad == NoConnection \/ OpenCursor \/ LoadPatient \/ LoadReadingsStart \/ LoadReading
            \/ Commit

SpecLoad == InitLoad /\ [][NextLoad]_vars

\* the caller keeps the summary the first call returned, with the store that
\* call found, and calls load_data again on the same connection with the
\* same batch
LoadAgain ==
    /\ lpc = "done" /\ first_summary = Nothing
    /\ first_summary' = Optional([loaded_patients_count |-> loaded_patients_count,
                                  loaded_readings_count |-> loaded_readings_count,
                                  db_loading_errors |-> db_loading_errors,
                                  store_before |-> store_before])
    /\ loaded_patients_count' = 0 /\ loaded_readings_count' = 0
    /\ db_loading_errors' = <<>>
    /\ taken' = 0 /\ lpc' = "start" /\ store_before' = store
    /\ UNCHANGED <<conn, patients, readings, store, txn, trace, first_run, rvars, pvars,
                   ovars>>

NextLoadTwice == NextLoad \/ LoadAgain

SpecLoadTwice == InitLoad /\ [][NextLoadTwice]_vars

(***************************************************************************)
(* pipeline_transform on a batch of valid records, then load_data of its   *)
(* result into an empty store.                                             *)
(***************************************************************************)
BatchPatientIds == {Chars(<<"p", "1">>), PyInt(1), PyInt(2)}
BatchReadingIds == {Chars(<<"r", "1">>), PyInt(7)}

ValidPatient(id) == With(BasePatient, "id", id)
\* the k-th reading of a batch, later than the ones before it
ValidReading(id, patient_id, k) ==
    [reading_id |-> id, patient_id |-> patient_id, timestamp |-> IsoStr(10 + k, "Z"),
     glucose |-> PyInt(120)]

DistinctIds(batch, key) ==
    \A j, k \in 1..Len(batch) : batch[j][key] = batch[k][key] => j = k

ValidPatientBatches ==
    {b \in SeqsUpTo({ValidPatient(id) : id \in BatchPatientIds}, MaxLoadPatients) :
        DistinctIds(b, "id")}

InitEndToEnd ==
    /\ raw_patient_data \in ValidPatientBatches
    /\ raw_device_data = <<>>
    /\ processed_patients = <<>> /\ processed_readings = <<>>
    /\ all_error_records = <<>> /\ last_timestamp_dict = <<>>
    /\ i = 0 /\ pc = "patients" /\ ts_log = <<>>
    /\ first_run = Nothing
    /\ IdleRecord /\ IdleLoad /\ IdleOthers

\* one device record of the batch: its id is new and its patient_id is the
\* id of a patient of the batch
ValidReadingStep ==
    /\ pc = "readings" /\ i < MaxLoadReadings
    /\ \E id \in BatchReadingIds \ {raw_device_data[k]["reading_id"] :
                                         k \in 1..Len(raw_device_data)},
          p \in 1..Len(raw_patient_data) :
          ReadingIteration(
              transform_device_reading(ValidReading(id, raw_patient_data[p]["id"], i), i))
    /\ UNCHANGED <<raw_patient_data, processed_patients, rvars, lvars, hvars, ovars>>

\* the result of pipeline_transform is handed to load_data, with the
\* connection the caller obtained
StartLoad ==
    /\ pc = "returned" /\ lpc = "idle"
    /\ conn' \in {"none", "open"}
    /\ patients' = processed_patients /\ readings' = processed_readings
    /\ lpc' = "start"
    /\ UNCHANGED <<loaded_patients_count, loaded_readings_count, db_loading_errors, taken,
                   store, txn, store_before, trace, rvars, pvars, hvars, ovars>>

NextEndToEnd ==
    \/ PatientStep \/ StartReadings \/ ValidReadingStep \/ Return
    \/ StartLoad
    \/ NoConnection \/ OpenCursor \/ LoadPatient \/ LoadReadingsStart \/ LoadReading \/ Commit

SpecEndToEnd == InitEndToEnd /\ [][NextEndToEnd]_vars

(***************************************************************************)
(* main.main_async: one run of the pipeline.  Each stage is a function     *)
(* handed to the executor with run_in_executor and awaited at once.        *)
(***************************************************************************)
\* `from etl.loading import ...` in main.py
MainImports == {"load_data", "load_error_data", "clear_storage", "get_all_loaded_data"}
\* the functions loading.py defines
LoadingDefines == {"initialize_database_schema", "load_data", "load_error_data"}
\* clear_storage and get_all_loaded_data are no longer defined by loading.py;
\* a run gets past the import only where a caller supplies them
StorageFunctions == {"clear_storage", "get_all_loaded_data"}

\* the parameters of load_data, none of which has a default
LoadDataParameters == <<"conn", "patients", "readings">>
\* a call binds when every parameter without default gets an argument
Binds(parameters, arguments) == Len(arguments) = Len(parameters)

InitMain ==
    /\ stage = "import" /\ running = {} /\ exception = ""
    /\ loading_names \in {LoadingDefines, LoadingDefines \cup StorageFunctions}
    /\ first_summary = Nothing /\ first_run = Nothing
    /\ IdleRecord /\ IdlePipeline /\ IdleLoad /\ IdleErrors /\ IdleSchema

\* an exception leaves main_async
Raise(type) == stage' = "raised" /\ exception' = type

\* the import statements of main.py
ImportNames ==
    /\ stage = "import"
    /\ IF MainImports \subseteq loading_names
       THEN stage' = "start" /\ UNCHANGED exception
       ELSE Raise("ImportError")
    /\ UNCHANGED <<running, loading_names, rvars, pvars, lvars, hvars, evars, svars>>

\* create_sample_data_files(), clear_storage(), and extract_data is handed
\* to the executor
ExtractStart ==
    /\ stage = "start"
    /\ stage' = "extracting" /\ running' = running \cup {"extract_data"}
    /\ UNCHANGED <<exception, loading_names, rvars, pvars, lvars, hvars, evars, svars>>

\* extract_data returns what the two files hold; `if not raw_patients and
\* not raw_devices: return`.  The device records are read by the reading
\* loop when it gets to them; with no patient the device file is empty too.
ExtractReturn ==
    /\ stage = "extracting"
    /\ running' = running \ {"extract_data"}
    /\ raw_patient_data' \in PatientBatches \cup {<<>>}
    /\ stage' = IF raw_patient_data' = <<>> THEN "returned" ELSE "extracted"
    /\ UNCHANGED <<raw_device_data, processed_patients, processed_readings,
                   all_error_records, last_timestamp_dict, i, pc, ts_log,
                   exception, loading_names, rvars, lvars, hvars, evars, svars>>

\* pipeline_transform is handed to the executor
TransformStart ==
    /\ stage = "extracted"
    /\ stage' = "transforming" /\ running' = running \cup {"pipeline_transform"}
    /\ pc' = "patients"
    /\ UNCHANGED <<raw_patient_data, raw_device_data, processed_patients,
                   processed_readings, all_error_records, last_timestamp_dict, i, ts_log,
                   exception, loading_names, rvars, lvars, hvars, evars, svars>>

\* the await of pipeline_transform: its result, or the exception it raised
TransformReturn ==
    /\ stage = "transforming" /\ pc \in {"returned", "raised"}
    /\ running' = running \ {"pipeline_transform"}
    /\ IF pc = "raised" THEN Raise("TypeError")
       ELSE stage' = "transformed" /\ UNCHANGED exception
    /\ UNCHANGED <<loading_names, rvars, pvars, lvars, hvars, evars, svars>>

\* load_data_async: `run_in_executor(None, load_data, processed_patients,
\* processed_readings)`
LoadStart ==
    /\ stage = "transformed"
    /\ stage' = "loading" /\ running' = running \cup {"load_data"}
    /\ UNCHANGED <<exception, loading_names, rvars, pvars, lvars, hvars, evars, svars>>

\* the await of load_data: the call has two arguments for three parameters,
\* TypeError is raised before the body runs and leaves load_data_async and
\* main_async; load_error_data and the summary come after it
LoadReturn ==
    /\ stage = "loading"
    /\ running' = running \ {"load_data"}
    /\ IF Binds(LoadDataParameters, <<processed_patients, processed_readings>>)
       THEN stage' = "loaded" /\ UNCHANGED exception
       ELSE Raise("TypeError")
    /\ UNCHANGED <<loading_names, rvars, pvars, lvars, hvars, evars, svars>>

NextMain ==
    \/ ImportNames \/ ExtractStart \/ ExtractReturn
    \/ TransformStart \/ PatientStep \/ StartReadings \/ ReadingStep \/ Return
    \/ TransformReturn
    \/ LoadStart \/ LoadReturn

SpecMain == InitMain /\ [][NextMain]_vars

(***************************************************************************)
(* loading.load_error_data, on the same kind of connection.  A row of      *)
(* error_records is its error_id, taken from the sequence error_id_seq,    *)
(* with the six values of the INSERT.                                      *)
(***************************************************************************)
\* str(value), as the arguments of the INSERT are built
Str(v) ==
    CASE IsStr(v) -> v
      [] IsInt(v) /\ v[2] \in 0..9 -> Chars(<<Digits[v[2] + 1]>>)
      [] OTHER -> <<"str", "repr", v>>

ErrorValues(e) ==
    <<Str(e.reference), e.source_table, e.field_name, e.error_type, e.case_description,
      Str(e.original_value)>>
ErrorRow(error_id, e) == Row("error_records", <<error_id, ErrorValues(e)>>)

LoadErrorRecords ==
    {ErrorRecord(Chars(<<"1">>), FieldName("email"), "INVALID_FORMAT", MsgEmail,
                 Chars(<<"a", "@">>), "patients"),
     ErrorRecord(PyInt(1), FieldName("glucose"), "VALUE_ERROR", MsgGlucose, PyInt(-5),
                 "device_readings")}
\* what error_records holds before the call
StoredErrorsBefore ==
    {{}, {ErrorRow(1, ErrorRecord(PyInt(1), FieldName("glucose"), "VALUE_ERROR", MsgGlucose,
                                  PyInt(-5), "device_readings"))}}

InitLoadErrors ==
    /\ conn \in {"none", "open"}
    /\ errors \in SeqsUpTo(LoadErrorRecords, MaxLoadErrors)
    /\ loaded_errors_count = 0 /\ db_error_loading_errors = <<>>
    /\ etaken = 0 /\ epc = "start"
    /\ store \in StoredErrorsBefore /\ error_id_seq = Cardinality(store) + 1
    /\ txn = <<>> /\ store_before = store /\ trace = <<>>
    /\ patients = <<>> /\ readings = <<>>
    /\ loaded_patients_count = 0 /\ loaded_readings_count = 0
    /\ db_loading_errors = <<>> /\ taken = 0 /\ lpc = "idle"
    /\ first_summary = Nothing
    /\ IdleRecord /\ IdlePipeline /\ IdleMain /\ IdleSchema

\* a variant: one error for every record of the batch
RECURSIVE NoConnectionEach(_)
NoConnectionEach(n) ==
    IF n = 0 THEN <<>> ELSE Append(NoConnectionEach(n - 1), [type |-> "NO_DB_CONNECTION"])
NoConnectionErrorsPerRecord ==
    /\ epc = "start" /\ conn = "none"
    /\ db_error_loading_errors' = db_error_loading_errors \o NoConnectionEach(Len(errors))
    /\ epc' = "done"
    /\ UNCHANGED <<errors, loaded_errors_count, etaken, error_id_seq, rvars, pvars, lvars,
                   hvars, mvars, svars>>

\* `if not conn`
NoConnectionErrors ==
    /\ epc = "start" /\ conn = "none"
    /\ db_error_loading_errors' = Append(db_error_loading_errors, [type |-> "NO_DB_CONNECTION"])
    /\ epc' = "done"
    /\ UNCHANGED <<errors, loaded_errors_count, etaken, error_id_seq, rvars, pvars, lvars,
                   hvars, mvars, svars>>

\* a variant: the outer handlers report the error and leave the transaction
\* as it is
ErrorsOuterHandlerNoRollback(type, calls) ==
    /\ txn' = txn
    /\ trace' = trace \o calls
    /\ db_error_loading_errors' = Append(db_error_loading_errors, [type |-> type])
    /\ epc' = "done"

\* the handlers of the outer try: rollback, one error without a reference,
\* and the summary is returned
ErrorsOuterHandler(type, calls) ==
    /\ txn' = <<>>
    /\ trace' = trace \o calls \o <<Call("rollback", "", None, "ok")>>
    /\ db_error_loading_errors' = Append(db_error_loading_errors, [type |-> type])
    /\ epc' = "done"

\* what load_error_data leaves alone of the state of load_data
LoadDataLocals ==
    <<conn, patients, readings, loaded_patients_count, loaded_readings_count,
      db_loading_errors, taken, lpc, store_before>>

\* `with conn.cursor() as cur`
OpenCursorErrors ==
    /\ epc = "start" /\ conn = "open"
    /\ \E fault \in {"none", "db_error"} :
          IF fault = "none"
          THEN /\ epc' = "records"
               /\ trace' = Append(trace, Call("cursor", "", None, "ok"))
               /\ UNCHANGED <<db_error_loading_errors, txn>>
          ELSE ErrorsOuterHandler("DB_OPERATION_ERROR", <<Call("cursor", "", None, fault)>>)
    /\ UNCHANGED <<errors, loaded_errors_count, etaken, error_id_seq, store, LoadDataLocals,
                   rvars, pvars, hvars, mvars, svars>>

\* the INSERT of one error record raised: conn.rollback() and one error
ErrorRecordFailed(reference, fault, type) ==
    /\ txn' = <<>>
    /\ trace' = trace \o <<Call("insert", "error_records", reference, fault),
                           Call("rollback", "", None, "ok")>>
    /\ db_error_loading_errors' =
          Append(db_error_loading_errors, [type |-> type, reference |-> reference])
    /\ UNCHANGED <<loaded_errors_count, error_id_seq>>

\* one error record of the batch: a plain INSERT, and the count goes up
\* whenever the statement did not raise
LoadErrorRecord ==
    /\ epc = "records" /\ etaken < Len(errors)
    /\ \E fault \in Faults :
          CASE fault = "none" ->
                 /\ txn' = Append(txn, ErrorRow(error_id_seq, errors[etaken + 1]))
                 /\ error_id_seq' = error_id_seq + 1
                 /\ trace' = Append(trace, Call("insert", "error_records",
                                                errors[etaken + 1].reference, "inserted"))
                 /\ loaded_errors_count' = loaded_errors_count + 1
                 /\ UNCHANGED db_error_loading_errors
            [] fault = "db_error" ->
                 ErrorRecordFailed(errors[etaken + 1].reference, fault,
                                   "ERROR_RECORD_INSERT_ERROR")
            [] fault = "other_error" ->
                 ErrorRecordFailed(errors[etaken + 1].reference, fault,
                                   "ERROR_RECORD_UNEXPECTED_ERROR")
    /\ etaken' = etaken + 1
    /\ UNCHANGED <<errors, epc, store, LoadDataLocals, rvars, pvars, hvars, mvars, svars>>

\* conn.commit(), and the summary is returned
CommitErrors ==
    /\ epc = "records" /\ etaken = Len(errors)
    /\ \E fault \in {"none", "db_error"} :
          IF fault = "none"
          THEN /\ store' = store \cup Range(txn)
               /\ txn' = <<>>
               /\ trace' = Append(trace, Call("commit", "", None, "ok"))
               /\ epc' = "done"
               /\ UNCHANGED db_error_loading_errors
          ELSE /\ ErrorsOuterHandler("DB_OPERATION_ERROR", <<Call("commit", "", None, fault)>>)
               /\ UNCHANGED store
    /\ UNCHANGED <<errors, loaded_errors_count, etaken, error_id_seq, LoadDataLocals,
                   rvars, pvars, hvars, mvars, svars>>

NextLoadErrors == NoConnectionErrors \/ OpenCursorErrors \/ LoadErrorRecord \/ CommitErrors

SpecLoadErrors == InitLoadErrors /\ [][NextLoadErrors]_vars

\* either loader, called once
InitLoaders == InitLoad \/ InitLoadErrors
NextLoaders == NextLoad \/ NextLoadErrors
SpecLoaders == InitLoaders /\ [][NextLoaders]_vars


(***************************************************************************)
(* pipeline_transform on a source where a patient record comes twice.      *)
(***************************************************************************)
RepeatedPatientBatches == {<<PatientOk, PatientOk>>, <<PatientNoName, PatientNoName>>}

InitRepeated ==
    /\ raw_patient_data \in RepeatedPatientBatches
    /\ raw_device_data = <<>>
    /\ processed_patients = <<>> /\ processed_readings = <<>>
    /\ all_error_records = <<>> /\ last_timestamp_dict = <<>>
    /\ i = 0 /\ pc = "patients" /\ ts_log = <<>>
    /\ first_run = Nothing
    /\ IdleRecord /\ IdleLoad /\ IdleOthers

SpecRepeated == InitRepeated /\ [][Next]_vars

(***************************************************************************)
(* load_data on a store that already holds a patient and a reading.        *)
(***************************************************************************)
StoredRows == {Row("patients", Chars(<<"p", "1">>)), Row("device_readings", Chars(<<"r", "1">>))}

InitLoadStored ==
    /\ conn \in {"none", "open"}
    /\ patients \in SeqsUpTo(LoadPatients, MaxLoadPatients)
    /\ readings \in SeqsUpTo(LoadReadings, MaxLoadReadings)
    /\ loaded_patients_count = 0 /\ loaded_readings_count = 0
    /\ db_loading_errors = <<>>
    /\ taken = 0 /\ lpc = "start"
    /\ store = StoredRows /\ txn = <<>> /\ store_before = store /\ trace = <<>>
    /\ first_summary = Nothing
    /\ IdleRecord /\ IdlePipeline /\ IdleOthers

SpecLoadStored == InitLoadStored /\ [][NextLoad]_vars

(***************************************************************************)
(* loading.initialize_database_schema and db_utils.execute_ddl.  DDL is    *)
(* transactional: the objects of `schema` are committed, those of          *)
(* `schema_txn` were created by the open transaction and are lost on       *)
(* rollback.  `conn` is "none" when get_db_connection returned None.       *)
(***************************************************************************)
\* the object each statement creates, in the order of the list
ALL_DDL_STATEMENTS ==
    <<"patients", "device_readings", "idx_device_readings_patient_id_timestamp",
      "error_records">>
\* REFERENCES patients(id); ON device_readings(patient_id, timestamp)
DdlNeeds(object) ==
    CASE object = "device_readings" -> {"patients"}
      [] object = "idx_device_readings_patient_id_timestamp" -> {"device_readings"}
      [] OTHER -> {}

\* the caller's view between calls: a store without schema, one with the
\* patients table only, or the full schema with or without a row
InitSchema ==
    /\ spc = "start" /\ schema_calls = 1
    /\ schema \in {{}, {"patients"}, Range(ALL_DDL_STATEMENTS)}
    /\ store \in IF "patients" \in schema THEN StoredBefore ELSE {{}}
    /\ schema_txn = {} /\ ddl_taken = 0 /\ ddl_result = Nothing /\ schema_before = schema
    /\ conn = "none" /\ patients = <<>> /\ readings = <<>>
    /\ loaded_patients_count = 0 /\ loaded_readings_count = 0
    /\ db_loading_errors = <<>> /\ taken = 0 /\ lpc = "idle"
    /\ txn = <<>> /\ store_before = store /\ trace = <<>>
    /\ first_summary = Nothing
    /\ IdleRecord /\ IdlePipeline /\ IdleMain /\ IdleErrors

\* what initialize_database_schema leaves alone
SchemaFrame ==
    <<patients, readings, loaded_patients_count, loaded_readings_count, db_loading_errors,
      taken, lpc, store, txn, store_before, schema_calls, schema_before, rvars, pvars,
      hvars, mvars, evars>>

\* `conn = get_db_connection()`, `if conn:`
GetDbConnection ==
    /\ spc = "start"
    /\ conn' \in {"none", "open"}
    /\ spc' = IF conn' = "open" THEN "cursor" ELSE "done"
    /\ UNCHANGED <<schema, schema_txn, ddl_taken, ddl_result, trace, SchemaFrame>>

\* `except Exception`: conn.rollback() and return False
DdlFailed(calls) ==
    /\ schema_txn' = {}
    /\ trace' = trace \o calls \o <<Call("rollback", "", None, "ok")>>
    /\ ddl_result' = Optional(FALSE)
    /\ spc' = "close"
    /\ UNCHANGED <<schema, ddl_taken>>

\* `with conn.cursor() as cur`
OpenDdlCursor ==
    /\ spc = "cursor" /\ conn = "open"
    /\ \E fault \in Faults :
          IF fault = "none"
          THEN /\ spc' = "statements"
               /\ trace' = Append(trace, Call("cursor", "", None, "ok"))
               /\ UNCHANGED <<schema, schema_txn, ddl_taken, ddl_result>>
          ELSE DdlFailed(<<Call("cursor", "", None, fault)>>)
    /\ UNCHANGED <<conn, SchemaFrame>>

\* a variant: every statement is committed as it is executed
CurExecuteAutocommit(object, fault) ==
    IF fault = "none" /\ DdlNeeds(object) \subseteq schema \cup schema_txn
    THEN /\ schema' = schema \cup {object}
         /\ trace' = Append(trace, Call("ddl", "", object,
                                        IF object \in schema \cup schema_txn THEN "exists"
                                        ELSE "created"))
         /\ ddl_taken' = ddl_taken + 1
         /\ UNCHANGED <<schema_txn, ddl_result, spc>>
    ELSE DdlFailed(<<Call("ddl", "", object, IF fault = "none" THEN "db_error" ELSE fault)>>)

\* cur.execute(statement): CREATE ... IF NOT EXISTS creates the object when
\* it is not there and leaves it alone when it is
CurExecute(object, fault) ==
    IF fault = "none" /\ DdlNeeds(object) \subseteq schema \cup schema_txn
    THEN /\ schema_txn' = schema_txn \cup ({object} \ schema)
         /\ trace' = Append(trace, Call("ddl", "", object,
                                        IF object \in schema \cup schema_txn THEN "exists"
                                        ELSE "created"))
         /\ ddl_taken' = ddl_taken + 1
         /\ UNCHANGED <<schema, ddl_result, spc>>
    ELSE DdlFailed(<<Call("ddl", "", object, IF fault = "none" THEN "db_error" ELSE fault)>>)

\* `for statement in ddl_statements`
ExecuteStatement ==
    /\ spc = "statements" /\ ddl_taken < Len(ALL_DDL_STATEMENTS)
    /\ \E fault \in Faults : CurExecute(ALL_DDL_STATEMENTS[ddl_taken + 1], fault)
    /\ UNCHANGED <<conn, SchemaFrame>>

\* conn.commit() and return True
CommitDdl ==
    /\ spc = "statements" /\ ddl_taken = Len(ALL_DDL_STATEMENTS)
    /\ \E fault \in Faults :
          IF fault = "none"
          THEN /\ schema' = schema \cup schema_txn
               /\ schema_txn' = {}
               /\ trace' = Append(trace, Call("commit", "", None, "ok"))
               /\ ddl_result' = Optional(TRUE)
               /\ spc' = "close"
               /\ UNCHANGED ddl_taken
          ELSE DdlFailed(<<Call("commit", "", None, fault)>>)
    /\ UNCHANGED <<conn, SchemaFrame>>

\* `finally: conn.close()`
CloseConnection ==
    /\ spc = "close"
    /\ conn' = "closed" /\ spc' = "done"
    /\ trace' = Append(trace, Call("close", "", None, "ok"))
    /\ UNCHANGED <<schema, schema_txn, ddl_taken, ddl_result, SchemaFrame>>

\* the next startup calls initialize_database_schema again
InitializeAgain ==
    /\ spc = "done" /\ schema_calls < MaxSchemaCalls
    /\ spc' = "start" /\ schema_calls' = schema_calls + 1
    /\ conn' = "none" /\ ddl_taken' = 0 /\ ddl_result' = Nothing /\ trace' = <<>>
    /\ schema_before' = schema
    /\ UNCHANGED <<schema, schema_txn, patients, readings, loaded_patients_count,
                   loaded_readings_count, db_loading_errors, taken, lpc, store, txn,
                   store_before, rvars, pvars, hvars, mvars, evars>>

NextSchema ==
    \/ GetDbConnection \/ OpenDdlCursor \/ ExecuteStatement \/ CommitDdl
    \/ CloseConnection \/ InitializeAgain

SpecSchema == InitSchema /\ [][NextSchema]_vars

(***************************************************************************)
(* Properties of load_data (SpecLoad).                                     *)
(***************************************************************************)
Returns == lpc = "done"

\* trace[j] is an insert that added a row to the open transaction
Applied(j) == trace[j].op = "insert" /\ trace[j].result = "inserted"
\* trace[j] is an insert that raised
InsertFailed(j) ==
    trace[j].op = "insert" /\ trace[j].result \in {"db_error", "other_error", "attribute_error"}
CommitCalls == {j \in 1..Len(trace) : trace[j].op = "commit"}
Committed == \E j \in CommitCalls : trace[j].result = "ok"
\* the rows of a table that the call added to the committed store
RowsAdded(table) == {row \in store \ store_before : row[1] = table}

\* C1: a per-record insert failure never discards earlier work of the batch:
\* every row whose insert was applied before a failing insert is in the store
\* once the call has committed.
C1_EarlierWorkSurvivesFailure ==
    (Returns /\ Committed) =>
        \A j \in 1..Len(trace) : \A k \in 1..Len(trace) :
            (j < k /\ Applied(j) /\ InsertFailed(k))
                => Row(trace[j].table, trace[j].ref) \in store

\* C2: when load_data returns, the two counts are the numbers of patient rows
\* and of reading rows that the call added to the committed store.
C2_CountsMatchStore ==
    Returns =>
        /\ loaded_patients_count = Cardinality(RowsAdded("patients"))
        /\ loaded_readings_count = Cardinality(RowsAdded("device_readings"))

RecordErrorTypes ==
    {"PATIENT_INSERT_ERROR", "PATIENT_UNEXPECTED_ERROR", "READING_INSERT_ERROR",
     "READING_UNEXPECTED_ERROR"}
\* the load errors of a record, by its id
ErrorsFor(id) ==
    {k \in 1..Len(db_loading_errors) :
        /\ db_loading_errors[k].type \in RecordErrorTypes
        /\ "reference" \in DOMAIN db_loading_errors[k]
        /\ db_loading_errors[k].reference = id}
FailuresOf(id) == {j \in 1..Len(trace) : InsertFailed(j) /\ trace[j].ref = id}
Attempts == {j \in 1..Len(trace) : trace[j].op = "insert"}

\* C3: when an insert fails, one load error with the record's id as reference
\* is appended for it, every record of the batch is still attempted, and
\* commit is called exactly once.
C3_FailureIsIsolated ==
    (Returns /\ \E j \in 1..Len(trace) : InsertFailed(j)) =>
        /\ \A j \in 1..Len(trace) :
              InsertFailed(j) =>
                  Cardinality(ErrorsFor(trace[j].ref)) = Cardinality(FailuresOf(trace[j].ref))
        /\ Cardinality(Attempts) = Len(patients) + Len(readings)
        /\ Cardinality(CommitCalls) = 1

(***************************************************************************)
(* Properties of pipeline_transform (Spec).  ts_log holds, for every       *)
(* iteration of the reading loop that ended, what the transformer returned *)
(* and the ordering error the iteration added.                             *)
(***************************************************************************)
ValidAt(j) == ts_log[j].entity # Nothing
ReadingAt(j) == ts_log[j].entity[1]
KeyAt(j) == IF IsNone(ReadingAt(j)["patient_id"]) THEN GlobalKey ELSE ReadingAt(j)["patient_id"]
TimestampAt(j) == FromIsoFormat(ReadingAt(j)["timestamp"])
InstantAt(j) == Instant(TimestampAt(j))
RefAt(j) == Get(raw_device_data[j], "reading_id", PyInt(j - 1))
Flagged(j) == ts_log[j].ts_error # <<>>
\* the valid readings of the key of reading j that precede it in the input
Preceding(j) == {k \in 1..(j - 1) : ValidAt(k) /\ KeyAt(k) = KeyAt(j)}
StrictlyEarlier(j) == ValidAt(j) /\ \E k \in Preceding(j) : InstantAt(j) < InstantAt(k)
InErrorList(e) == \E k \in 1..Len(all_error_records) : ErrorEq(all_error_records[k], e)
OrderErrors ==
    {k \in 1..Len(all_error_records) :
        all_error_records[k].error_type = "TIMESTAMP_ORDER_INCONSISTENCY"}
DeviceErrors ==
    {k \in 1..Len(all_error_records) : all_error_records[k].source_table = "device_readings"}
\* three valid readings of one key with the timestamps 10:00, 09:00, 11:00
TenNineEleven ==
    /\ Len(ts_log) = 3
    /\ \A j \in 1..3 : ValidAt(j) /\ KeyAt(j) = KeyAt(1)
    /\ <<InstantAt(1), InstantAt(2), InstantAt(3)>> = <<600, 540, 660>>

\* C4: a reading gets a TIMESTAMP_ORDER_INCONSISTENCY error, referencing its
\* id and kept in the error list, if and only if it is valid and strictly
\* earlier than some preceding valid reading of its key; the error list
\* holds no other ordering error; and for 10:00, 09:00, 11:00 of one key the
\* returned error list holds exactly one error, for the second reading.
C4_OrderErrorIffStrictlyEarlier ==
    /\ \A j \in 1..Len(ts_log) :
          /\ Flagged(j) <=> StrictlyEarlier(j)
          /\ Flagged(j) =>
                /\ ts_log[j].ts_error[1].error_type = "TIMESTAMP_ORDER_INCONSISTENCY"
                /\ PyEq(ts_log[j].ts_error[1].reference, RefAt(j))
                /\ InErrorList(ts_log[j].ts_error[1])
    /\ \A k \in OrderErrors :
          \E j \in 1..Len(ts_log) : Flagged(j) /\ ts_log[j].ts_error[1] = all_error_records[k]
    /\ (pc = "returned" /\ TenNineEleven) =>
          /\ Cardinality(DeviceErrors) = 1
          /\ DeviceErrors = OrderErrors
          /\ \A k \in DeviceErrors : PyEq(all_error_records[k].reference, RefAt(2))

C4_Witness == pc = "returned" /\ TenNineEleven /\ Flagged(2) /\ ~Flagged(3)

RECURSIVE Entities(_)
Entities(log) == IF log = <<>> THEN <<>> ELSE log[1].entity \o Entities(Tail(log))

\* C5: the valid readings that pipeline_transform returns are exactly the
\* readings for which transform_device_reading returned an entity, in input
\* order; a reading flagged as out of order is among them.
C5_FlaggedReadingsKept ==
    pc = "returned" =>
        /\ processed_readings = Entities(ts_log)
        /\ \A j \in 1..Len(ts_log) :
              Flagged(j) => \E k \in 1..Len(processed_readings) :
                                processed_readings[k] = ReadingAt(j)

C5_Witness ==
    /\ pc = "returned"
    /\ \E j \in 1..Len(ts_log) : Flagged(j)
    /\ \E j \in 1..Len(ts_log) : ~ValidAt(j)

ValidOf(key) == {j \in 1..Len(ts_log) : ValidAt(j) /\ KeyAt(j) = key}
IsMaxOf(key, j) == j \in ValidOf(key) /\ \A k \in ValidOf(key) : InstantAt(k) <= InstantAt(j)
\* the last of the valid readings of the key that hold its greatest timestamp
LastMaxOf(key) ==
    CHOOSE j \in ValidOf(key) : IsMaxOf(key, j) /\ \A k \in ValidOf(key) : IsMaxOf(key, k) => k <= j

\* the watermark of the key is the timestamp of reading j, a greatest one
WatermarkFrom(key, j) == IsMaxOf(key, j) /\ last_timestamp_dict[key] = TimestampAt(j)

\* C6: at every step of the reading loop the watermark of a key is the
\* greatest timestamp of the valid readings of the key processed so far,
\* taken from the last reading that reached it; a key has a watermark once
\* it has a valid reading.
C6_WatermarkIsMaximum ==
    /\ DOMAIN last_timestamp_dict = {KeyAt(j) : j \in {k \in 1..Len(ts_log) : ValidAt(k)}}
    /\ \A key \in DOMAIN last_timestamp_dict : WatermarkFrom(key, LastMaxOf(key))

C6_Witness ==
    /\ pc = "readings"
    /\ \E j \in 1..Len(ts_log) : Flagged(j)
    /\ \E j \in 1..Len(ts_log) : \E k \in 1..(j - 1) :
          /\ ValidAt(j) /\ ValidAt(k) /\ KeyAt(j) = KeyAt(k)
          /\ InstantAt(j) = InstantAt(k) /\ TimestampAt(j) # TimestampAt(k)
          /\ last_timestamp_dict[KeyAt(j)] = TimestampAt(j)

\* C7: pipeline_transform never raises, whatever the records hold.
C7_NeverRaises == pc # "raised"

(***************************************************************************)
(* Properties of the transformers (SpecRecord).                            *)
(***************************************************************************)
Out == r_out[1]
ErrorTypeOut == IF Out.error = Nothing THEN "" ELSE Out.error[1].error_type

\* C8: transform_patient and transform_device_reading return an entity and
\* no error, or an error and no entity.
C8_EntityXorError ==
    r_pc = "returned" =>
        \/ Len(Out.entity) = 1 /\ Len(Out.error) = 0
        \/ Len(Out.entity) = 0 /\ Len(Out.error) = 1

C8_Witness ==
    /\ r_pc = "returned" /\ r_kind = "reading"
    /\ ErrorTypeOut = "LOGICAL_INCONSISTENCY" /\ Out.entity = Nothing

\* the outcome of the field rules on the record held in r_raw
FieldRules ==
    IF r_kind = "reading" THEN DeviceReading(CoerceRecord(r_raw)) ELSE Patient(r_raw)
FieldRulesPass == NonStrKey \notin DOMAIN r_raw /\ FieldRules.ok
FieldRulesReject == NonStrKey \notin DOMAIN r_raw /\ ~FieldRules.ok
Systolic == FieldRules.model["systolic_bp"]
Diastolic == FieldRules.model["diastolic_bp"]
BothPressures == ~IsNone(Systolic) /\ ~IsNone(Diastolic)

\* C9: a reading that passes the field rules with both pressures present and
\* diastolic >= systolic is not returned, and one LOGICAL_INCONSISTENCY error
\* referencing it is; no other reading gets that error.
C9_PressureCrossCheck ==
    (r_pc = "returned" /\ r_kind = "reading") =>
        IF FieldRulesPass /\ BothPressures /\ Diastolic[2] >= Systolic[2]
        THEN /\ Out.entity = Nothing
             /\ ErrorTypeOut = "LOGICAL_INCONSISTENCY"
             /\ PyEq(Out.error[1].reference, Get(r_raw, "reading_id", PyInt(r_idx)))
        ELSE ErrorTypeOut # "LOGICAL_INCONSISTENCY"

C9_Witness ==
    /\ r_pc = "returned" /\ r_kind = "reading"
    /\ FieldRulesPass /\ BothPressures /\ Diastolic[2] = Systolic[2]

\* the error type that the first violation calls for
ExpectedErrorType(type, msg_lower) ==
    IF Contains(<<"out", "of", "plausible", "range">>, msg_lower) THEN "VALUE_ERROR"
    ELSE IF \E what \in {"date", "timestamp", "email", "phone"} :
                Contains(<<"invalid", what, "format">>, msg_lower)
         THEN "INVALID_FORMAT"
    ELSE IF type = "missing" THEN "MISSING_VALUE"
    ELSE IF type \in {"int_parsing", "float_parsing", "int_type", "float_type",
                      "int_from_float", "string_type"}
         THEN "INVALID_TYPE"
    ELSE "VALUE_ERROR"

\* C10: a patient or reading rejected by field validation gets the error type
\* of its first violation: VALUE_ERROR for a value out of range,
\* INVALID_FORMAT for a bad date, timestamp, email or phone, MISSING_VALUE for
\* a missing field, INVALID_TYPE for a failed coercion, VALUE_ERROR otherwise.
C10_ErrorTypeByPriority ==
    (r_pc = "returned" /\ FieldRulesReject) =>
        ErrorTypeOut = ExpectedErrorType(FieldRules.type, Lower(FieldRules.msg))

(***************************************************************************)
(* Further properties of pipeline_transform (Spec).                        *)
(***************************************************************************)
TransformErrorTypes ==
    {"INVALID_FORMAT", "MISSING_VALUE", "INVALID_TYPE", "VALUE_ERROR", "LOGICAL_INCONSISTENCY",
     "TIMESTAMP_ORDER_INCONSISTENCY", "TRANSFORMATION_ERROR"}

\* C11: every error record that pipeline_transform returns has one of the
\* seven transform-time error types.
C11_ErrorTypesInTaxonomy ==
    pc = "returned" =>
        \A k \in 1..Len(all_error_records) :
            all_error_records[k].error_type \in TransformErrorTypes

(***************************************************************************)
(* Further properties of the transformers (SpecRecord).                    *)
(***************************************************************************)
\* the keys under which a raw record may carry its own id
IdKeys == IF r_kind = "reading" THEN {"id", "reading_id"} ELSE {"id"}
\* the ids the raw record carries
CarriedIds == {r_raw[f] : f \in {g \in IdKeys \cap DOMAIN r_raw : ~IsNone(r_raw[g])}}

\* C12: the reference of the error produced for a record is the record's own
\* id when the raw record carries one, and its ordinal position otherwise.
C12_ReferenceIsIdOrPosition ==
    (r_pc = "returned" /\ Out.error # Nothing) =>
        IF CarriedIds # {} THEN Out.error[1].reference \in CarriedIds
        ELSE Out.error[1].reference = PyInt(r_idx)

\* the id of the entity returned
EntityId == IF r_kind = "reading" THEN Out.entity[1]["reading_id"] ELSE Out.entity[1]["id"]

\* C13: every valid entity has a non-null id: the id the raw record supplied,
\* and otherwise (id absent or null) the record's ordinal position.
C13_EntityIdBackfilled ==
    (r_pc = "returned" /\ Out.entity # Nothing) =>
        /\ ~IsNone(EntityId)
        /\ IF CarriedIds # {} THEN EntityId \in CarriedIds ELSE EntityId = PyInt(r_idx)

\* C16: a record that violates field rules produces no entity and exactly
\* one error, whose field_name is the first violated field and whose
\* original_value is the raw value of that field; a patient record without
\* name yields no Patient and one error with field_name "name".
C16_FirstViolationReported ==
    /\ (r_pc = "returned" /\ FieldRulesReject) =>
            /\ Out.entity = Nothing /\ Out.error # Nothing
            /\ Out.error[1].field_name = FieldName(FieldRules.loc)
            /\ Out.error[1].original_value = Get(r_raw, FieldRules.loc, None)
    /\ (r_pc = "returned" /\ r_kind = "patient"
            /\ DOMAIN r_raw \subseteq Range(PatientFields) \ {"name"}) =>
            /\ Out.entity = Nothing /\ Out.error # Nothing
            /\ Out.error[1].field_name = FieldName("name")

\* the number a raw reading carries in a field, in hundredths, once strings
\* that look like numbers are read as numbers
Carried(f) == CoerceRecord(r_raw)[f]
HasNumber(f) == f \in DOMAIN r_raw /\ IsNumber(Carried(f))
Inside(f) ==
    CASE f = "glucose" ->
           100 * GlucoseLow < Hundredths(Carried(f)) /\ Hundredths(Carried(f)) < 100 * GlucoseHigh
      [] f = "weight" ->
           100 * WeightLow < Hundredths(Carried(f)) /\ Hundredths(Carried(f)) < 100 * WeightHigh
      [] OTHER ->
           100 * BpLow < Hundredths(Carried(f)) /\ Hundredths(Carried(f)) < 100 * BpHigh
\* the record passes the field rules once the field is taken out
OthersPass(f) ==
    NonStrKey \notin DOMAIN r_raw /\ DeviceReading(CoerceRecord(With(r_raw, f, Absent))).ok
RejectedFor(f) == Out.error # Nothing /\ Out.error[1].field_name = FieldName(f)

\* the range rule of one numeric field
RangeRule(f) ==
    IF HasNumber(f) /\ ~Inside(f)
    THEN /\ Out.entity = Nothing
         /\ OthersPass(f) => (RejectedFor(f) /\ ErrorTypeOut = "VALUE_ERROR")
    ELSE (HasNumber(f) \/ f \notin DOMAIN r_raw) => ~RejectedFor(f)

\* C17: a reading is rejected with a VALUE_ERROR on the field when a present
\* glucose or weight is not strictly between 0 and 1000 or a present
\* systolic_bp or diastolic_bp is not strictly between 0 and 300, and is not
\* rejected for the field when its value is strictly inside or it is absent.
C17_RangeBoundaries ==
    (r_pc = "returned" /\ r_kind = "reading") => \A f \in NumericFields : RangeRule(f)

RawDob == r_raw["dob"]
\* the raw dob is a string that writes a date of the calendar as YYYY-MM-DD
\* or MM/DD/YYYY
DateGiven ==
    /\ "dob" \in DOMAIN r_raw /\ IsStr(RawDob) /\ RawDob[2] = "date"
    /\ RawDob[3] \in {"Y-m-d", "m/d/Y"} /\ IsDate(RawDob[4], RawDob[5], RawDob[6])
\* the fields declared before dob pass
NameGiven == NonStrKey \notin DOMAIN r_raw /\ "name" \in DOMAIN r_raw /\ IsStr(r_raw["name"])

\* C18: every valid patient has its dob in the form YYYY-MM-DD, with two
\* digits for month and day: the date the raw record gave as MM/DD/YYYY or
\* as YYYY-MM-DD; any other string is rejected with an error on dob that
\* carries the invalid-date-format message.
C18_DobNormalized ==
    (r_pc = "returned" /\ r_kind = "patient") =>
        /\ Out.entity # Nothing =>
               /\ DateGiven
               /\ Out.entity[1]["dob"] = DateStr("Y-m-d", RawDob[4], RawDob[5], RawDob[6], TRUE)
        /\ ("dob" \in DOMAIN r_raw /\ IsStr(RawDob) /\ ~DateGiven /\ NameGiven) =>
               /\ RejectedFor("dob")
               /\ Contains(MsgDob, Out.error[1].case_description)

(***************************************************************************)
(* Properties of two calls of load_data with one batch (SpecLoadTwice).    *)
(***************************************************************************)
\* no statement and no call of the connection failed
NoFault == \A k \in 1..Len(trace) : trace[k].result \notin {"db_error", "other_error"}

\* the rows of a batch
PatientRows == {Row("patients", patients[k]["id"]) : k \in 1..Len(patients)}
ReadingRows == {Row("device_readings", readings[k]["reading_id"]) : k \in 1..Len(readings)}

SecondReturned == lpc = "done" /\ first_summary # Nothing /\ conn = "open" /\ NoFault

\* C14: load_data is idempotent on the store: of two calls with the same
\* batch the first reports as loaded the records whose id was new, the second
\* reports 0, raises no load error, and leaves the stored rows as the first
\* call left them.
C14_LoadIsIdempotent ==
    SecondReturned =>
        /\ first_summary[1].loaded_patients_count
              = Cardinality(PatientRows \ first_summary[1].store_before)
        /\ first_summary[1].loaded_readings_count
              = Cardinality(ReadingRows \ first_summary[1].store_before)
        /\ loaded_patients_count = 0 /\ loaded_readings_count = 0
        /\ db_loading_errors = <<>>
        /\ store = store_before

(***************************************************************************)
(* Properties of transforming and loading a valid batch (SpecEndToEnd).    *)
(***************************************************************************)
\* pipeline_transform kept every record of the batch and reported no error
AllValid ==
    /\ Len(processed_patients) = Len(raw_patient_data)
    /\ Len(processed_readings) = Len(raw_device_data)
    /\ all_error_records = <<>>

\* load_data reported every record of the batch as loaded, without error
AllLoaded ==
    /\ loaded_patients_count = Len(raw_patient_data)
    /\ loaded_readings_count = Len(raw_device_data)
    /\ db_loading_errors = <<>>

\* each reading of the batch is stored under its own id
ReadingsStored ==
    \A k \in 1..Len(raw_device_data) :
        Row("device_readings", raw_device_data[k]["reading_id"]) \in store

\* C15: a batch of valid records with distinct ids, each reading's
\* patient_id being the id of a patient of the batch, is transformed with
\* every record valid and 0 errors, and its load into an empty store reports
\* the batch sizes as loaded with no load error, each reading stored under
\* its own id.
C15_ValidBatchEndToEnd ==
    /\ pc = "returned" => AllValid
    /\ (lpc = "done" /\ conn = "open" /\ NoFault) => (AllLoaded /\ ReadingsStored)

(***************************************************************************)
(* Properties of two runs of pipeline_transform on one input (SpecRerun).  *)
(***************************************************************************)
SecondRunOver == first_run # Nothing /\ pc \in {"returned", "raised"}

\* C19: pipeline_transform is deterministic and keeps no state between
\* batches: a second run on the very records the first run was given ends as
\* the first did, with identical valid patients, valid readings and errors,
\* field value by field value.
C19_SecondRunIdentical ==
    SecondRunOver =>
        /\ pc = first_run[1].pc
        /\ pc = "returned" =>
               /\ processed_patients = first_run[1].processed_patients
               /\ processed_readings = first_run[1].processed_readings
               /\ all_error_records = first_run[1].all_error_records

\* a second run has returned a temporal error and the error of a reading
\* whose glucose the first run had converted from a string
C19_Witness ==
    /\ SecondRunOver /\ pc = "returned"
    /\ \E k \in 1..Len(all_error_records) :
          all_error_records[k].error_type = "TIMESTAMP_ORDER_INCONSISTENCY"
    /\ \E k \in 1..Len(all_error_records) : all_error_records[k].original_value = PyInt(5000)
    /\ \E k \in 1..Len(raw_device_data) : IsNone(raw_device_data[k]["glucose"])

(***************************************************************************)
(* The order of the output of pipeline_transform (Spec).                   *)
(***************************************************************************)
\* what the transformers return for the k-th record of each input list
PatientOut(k) == transform_patient(raw_patient_data[k], k - 1)
ReadingOut(k) == transform_device_reading(raw_device_data[k], k - 1)

PatientOuts == [k \in 1..Len(raw_patient_data) |-> PatientOut(k)]
ReadingOuts == [k \in 1..Len(raw_device_data) |-> ReadingOut(k)]

\* the entities and the errors of the records 1..k, in input order; for a
\* reading the transformer's error comes before its temporal error
RECURSIVE EntitiesUpTo(_, _)
EntitiesUpTo(outs, k) == IF k = 0 THEN <<>> ELSE EntitiesUpTo(outs, k - 1) \o outs[k].entity
RECURSIVE ErrorsUpTo(_, _, _)
ErrorsUpTo(outs, log, k) ==
    IF k = 0 THEN <<>>
    ELSE ErrorsUpTo(outs, log, k - 1) \o outs[k].error
         \o (IF k \in DOMAIN log THEN log[k].ts_error ELSE <<>>)

\* a is b with some elements left out
RECURSIVE Subseq(_, _)
Subseq(a, b) ==
    IF a = <<>> THEN TRUE
    ELSE IF b = <<>> THEN FALSE
    ELSE IF a[1] = b[1] THEN Subseq(Tail(a), Tail(b))
    ELSE Subseq(a, Tail(b))

\* the errors are the fired ones in their order, none missing, repeats of an
\* error left out
InFiredOrder(listed, fired) ==
    /\ Subseq(listed, fired)
    /\ \A k \in 1..Len(fired) : \E j \in 1..Len(listed) : ErrorEq(listed[j], fired[k])

\* what pipeline_transform is to return, from what the transformers return
\* for the patients and for the readings
OrderedOutput(patient_outs, reading_outs) ==
    /\ processed_patients = EntitiesUpTo(patient_outs, Len(patient_outs))
    /\ processed_readings = EntitiesUpTo(reading_outs, Len(reading_outs))
    /\ InFiredOrder(all_error_records,
                    ErrorsUpTo(patient_outs, <<>>, Len(patient_outs))
                    \o ErrorsUpTo(reading_outs, ts_log, Len(reading_outs)))

\* C20: the valid patients and the valid readings keep the order of their raw
\* records, and the errors are in the order their checks fired: patient
\* errors in input order, then reading by reading the transformer's error
\* before the temporal error.
C20_OutputOrder == pc = "returned" => OrderedOutput(PatientOuts, ReadingOuts)

\* two patients and two readings are valid, two patients were rejected, and
\* a rejected reading comes before a reading flagged as out of order
C20_Witness ==
    /\ pc = "returned"
    /\ Len(processed_patients) = 2 /\ Len(processed_readings) = 2
    /\ Len(all_error_records) = 4
    /\ all_error_records[3].error_type = "INVALID_FORMAT"
    /\ all_error_records[4].error_type = "TIMESTAMP_ORDER_INCONSISTENCY"

(***************************************************************************)
(* Properties of a run of main_async (SpecMain).                           *)
(***************************************************************************)
\* C21: a run whose sources are readable is the strict sequence of its
\* stages, no two of them active at the same time, and it reaches the
\* summary instead of ending in an exception or returning before it.
C21_RunReachesSummary ==
    /\ Cardinality(running) <= 1
    /\ stage \notin {"raised", "returned"}

(***************************************************************************)
(* Properties of the two loaders (SpecLoaders, SpecLoadErrors).            *)
(***************************************************************************)
ErrorsReturns == epc = "done"

\* C22: a loader called without a connection returns counts of 0 and exactly
\* one load error, of type NO_DB_CONNECTION, whatever the batch; the
\* connection saw no insert, commit or rollback, nothing was stored and no
\* error names a record.
C22_NoConnectionIsOneError ==
    /\ (Returns /\ conn = "none") =>
          /\ loaded_patients_count = 0 /\ loaded_readings_count = 0
          /\ db_loading_errors = <<[type |-> "NO_DB_CONNECTION"]>>
          /\ trace = <<>> /\ txn = <<>> /\ store = store_before
    /\ (ErrorsReturns /\ conn = "none") =>
          /\ loaded_errors_count = 0
          /\ db_error_loading_errors = <<[type |-> "NO_DB_CONNECTION"]>>
          /\ trace = <<>> /\ txn = <<>> /\ store = store_before
C22_Witness ==
    \/ Returns /\ conn = "none" /\ Len(patients) + Len(readings) > 1
    \/ ErrorsReturns /\ conn = "none" /\ Len(errors) > 1

\* the inserts of error records that raised psycopg2.Error
ErrorInsertsFailed ==
    {j \in 1..Len(trace) : trace[j].op = "insert" /\ trace[j].result = "db_error"}
AppliedInserts == {j \in 1..Len(trace) : Applied(j)}
InsertErrorsReported ==
    {k \in 1..Len(db_error_loading_errors) :
        db_error_loading_errors[k].type = "ERROR_RECORD_INSERT_ERROR"}
\* no statement raised anything but psycopg2.Error on an INSERT
OnlyInsertErrors ==
    \A j \in 1..Len(trace) : trace[j].result \in {"ok", "inserted"} \/ j \in ErrorInsertsFailed

\* C23: when load_error_data returns after a commit that succeeded, every record whose own
\* insert did not fail is one new row of error_records, equal records
\* included, each failing insert is reported as one
\* ERROR_RECORD_INSERT_ERROR, every record was attempted, commit was called
\* exactly once, and loaded_errors_count is the number of rows the call
\* stored.
C23_ErrorLoadIsolated ==
    (ErrorsReturns /\ conn = "open" /\ OnlyInsertErrors) =>
        /\ Cardinality(RowsAdded("error_records")) = Cardinality(AppliedInserts)
        /\ store_before \subseteq store
        /\ Cardinality(InsertErrorsReported) = Cardinality(ErrorInsertsFailed)
        /\ Cardinality(AppliedInserts) + Cardinality(ErrorInsertsFailed) = Len(errors)
        /\ Cardinality(CommitCalls) = 1
        /\ loaded_errors_count = Cardinality(RowsAdded("error_records"))

(***************************************************************************)
(* Properties of initialize_database_schema (SpecSchema).                  *)
(***************************************************************************)
DdlCalls == {j \in 1..Len(trace) : trace[j].op = "ddl"}
ClosedAt == {j \in 1..Len(trace) : trace[j].op = "close"}

\* C24: in every call of initialize_database_schema, statements are executed
\* only on a connection that was obtained; when execute_ddl returned True
\* every statement ran, commit was called once and the whole schema is
\* there; when it returned False the transaction was rolled back and the
\* committed schema is the one the call found; a connection that was
\* obtained is closed when the call returns, as its last action; and no
\* call takes an object or a row away; a call on the full schema changes
\* nothing.
C24_SchemaInitRepeatable ==
    /\ DdlCalls # {} => conn # "none"
    /\ schema_before \subseteq schema /\ store = store_before
    /\ spc = "done" =>
          /\ schema_txn = {}
          /\ conn = "none" => (trace = <<>> /\ schema = schema_before)
          /\ conn # "none" =>
                /\ conn = "closed" /\ ClosedAt = {Len(trace)}
                /\ ddl_result # Nothing
                /\ ddl_result = Optional(TRUE) =>
                      /\ Cardinality(DdlCalls) = Len(ALL_DDL_STATEMENTS)
                      /\ Cardinality(CommitCalls) = 1 /\ Committed
                      /\ schema = Range(ALL_DDL_STATEMENTS)
                /\ ddl_result = Optional(FALSE) =>
                      /\ ~Committed
                      /\ trace[Len(trace) - 1].op = "rollback"
                      /\ schema = schema_before
          /\ schema_before = Range(ALL_DDL_STATEMENTS) => schema = schema_before
C24_Witness ==
    /\ spc = "done" /\ schema_calls = MaxSchemaCalls /\ conn = "closed"
    /\ ddl_result = Optional(TRUE) /\ schema_before = Range(ALL_DDL_STATEMENTS)
    /\ store # {}

(***************************************************************************)
(* Properties of pipeline_transform on repeated records (SpecRepeated).    *)
(***************************************************************************)
\* C25: the error list pipeline_transform returns holds no two structurally
\* equal error records, whether they come from patient records or from
\* device readings.
C25_NoEqualErrors ==
    pc = "returned" =>
        \A j, k \in 1..Len(all_error_records) :
            ErrorEq(all_error_records[j], all_error_records[k]) => j = k

(***************************************************************************)
(* Properties of load_data on stored rows (SpecLoadStored).                *)
(***************************************************************************)
\* the ids of a batch that the store did not hold before the call
NewPatientIds ==
    {patients[k]["id"] : k \in 1..Len(patients)}
        \ {id \in {patients[k]["id"] : k \in 1..Len(patients)} :
              Row("patients", id) \in store_before}
AllReadingsStored == ReadingRows \subseteq store_before

\* C26: load_data never changes a stored row.  When no statement raises and
\* every reading of the batch is already stored, the call reports no load
\* error, counts no reading and only the patients whose id was new, once
\* each, and every row stored before the call is still there.
C26_ExistingRowsUntouched ==
    /\ store_before \subseteq store
    /\ (Returns /\ conn = "open" /\ NoFault /\ AllReadingsStored) =>
          /\ db_loading_errors = <<>>
          /\ loaded_readings_count = 0
          /\ loaded_patients_count = Cardinality(NewPatientIds)
          /\ \A j \in 1..Len(trace) :
                (trace[j].op = "insert" /\ Row(trace[j].table, trace[j].ref) \in store_before)
                    => trace[j].result = "conflict"

(***************************************************************************)
(* Properties of Patient.validate_email (SpecRecord).                      *)
(***************************************************************************)
\* the whole of cs is: non-@ characters, one "@", non-@ characters, a ".",
\* non-@ characters, each run with at least one character
EmailShape(cs) ==
    \E a \in 2..Len(cs) : \E p \in (a + 2)..(Len(cs) - 1) :
        /\ cs[a] = "@" /\ cs[p] = "."
        /\ \A k \in 1..Len(cs) : cs[k] = "@" => k = a
RawEmail == r_raw["email"]

\* C27: a patient is accepted only if its email has exactly the shape
\* local@domain.tld, with no other "@"; an email string of any other shape
\* is rejected with an INVALID_FORMAT error on the field email.
C27_EmailExactShape ==
    (r_pc = "returned" /\ r_kind = "patient" /\ "email" \in DOMAIN r_raw /\ IsStr(RawEmail)) =>
        /\ Out.entity # Nothing => EmailShape(RawEmail[3])
        /\ (~EmailShape(RawEmail[3]) /\ Out.error # Nothing /\ RejectedFor("email"))
               => ErrorTypeOut = "INVALID_FORMAT"

(***************************************************************************)
(* Properties of the load of a transformed batch (SpecEndToEnd).           *)
(***************************************************************************)
PatientInserts == {j \in 1..Len(trace) : trace[j].op = "insert" /\ trace[j].table = "patients"}
ReadingInserts ==
    {j \in 1..Len(trace) : trace[j].op = "insert" /\ trace[j].table = "device_readings"}
\* the patient was inserted successfully earlier in the call
InsertedEarlier(id) == \E j \in PatientInserts : Applied(j) /\ trace[j].ref = id
\* the row that REFERENCES patients(id) looks for, as the transaction sees it
PatientPresent(id) == Row("patients", id) \in store \cup Range(txn)

RecordErrors(table) ==
    {k \in 1..Len(all_error_records) :
        /\ all_error_records[k].source_table = table
        /\ all_error_records[k].error_type # "TIMESTAMP_ORDER_INCONSISTENCY"}

\* C29: pipeline_transform loses no record and counts none twice: when it
\* returns, valid patients plus patient errors are as many as the raw
\* patient records, and valid readings plus the reading errors other than
\* TIMESTAMP_ORDER_INCONSISTENCY are as many as the raw device records.
C29_RecordsConserved ==
    pc = "returned" =>
        /\ Len(processed_patients) + Cardinality(RecordErrors("patients"))
              = Len(raw_patient_data)
        /\ Len(processed_readings) + Cardinality(RecordErrors("device_readings"))
              = Len(raw_device_data)

(***************************************************************************)
(* Properties of the connection after a loader returned (SpecLoaders).     *)
(***************************************************************************)
LastCall == trace[Len(trace)]

\* C30: when load_data or load_error_data returns on a connection it was
\* given, the transaction is closed: the last call the connection saw is a
\* commit or a rollback that succeeded, and no inserted row is left pending.
C30_TransactionClosedAtReturn ==
    ((Returns \/ ErrorsReturns) /\ conn = "open") =>
        /\ txn = <<>>
        /\ trace # <<>>
        /\ LastCall.op \in {"commit", "rollback"} /\ LastCall.result = "ok"
C30_Witness ==
    /\ ErrorsReturns /\ conn = "open" /\ AppliedInserts # {}
    /\ \E j \in CommitCalls : trace[j].result = "db_error"
    /\ LastCall.op = "rollback"

====
